---- MODULE Spec2Model ----
(***************************************************************************)
(* Model of the incremental-run cache of the ledger scripts                *)
(* (scripts/util/cache.py): the persisted cache document, the asyncio      *)
(* lock that guards it, should_skip_journal, mark_journal_processed,       *)
(* evict_old_scripts and the JournalRunContext session (enter, report,     *)
(* exit).  Every await of the source is a step boundary: between two       *)
(* steps of a task the other task and the environment (editors of the      *)
(* journals, of the script and of the preludes, the passing of time) may   *)
(* act.  sha256 is modelled as injective: a digest is the content itself.  *)
(***************************************************************************)
EXTENDS Integers, FiniteSets, Sequences, TLC

\* ---------------------------------------------------------------- bounds
MaxOps == 2        \* operations (sessions, skips, marks) started in a run
MaxEdits == 1      \* edits of journals, script and preludes by the environment
MaxTicks == 3      \* advances of the wall clock
TickDays == 15     \* days the wall clock advances in one tick

\* ------------------------------------------------------------- constants
days == 30         \* evict_old_scripts(cache, days=30)
NoTime == 0 - 1    \* a datetime field that is None

Tasks == {"t1", "t2"}
Procs == {"p1", "p2"}
NoTask == "none"
Files == {1, 2}                  \* journal paths, in the order of fspath
Contents == {"c1", "c2"}         \* byte contents of a journal
Bytes == {"b1", "b2"}            \* byte contents of the calling script
Preludes == {"v1", "v2"}         \* contents of the preludes directory
Missing == "missing"             \* the file does not exist
\* the file exists and cannot be opened for reading: open() raises an
\* OSError that is not FileNotFoundError (PermissionError, IsADirectoryError)
Unreadable == "unreadable"
ScriptName == "check.py"

VARIABLES
    disk,         \* journal path -> content or Missing
    script,       \* content of the script file, or Missing
    preludes,     \* content of the preludes directory
    clock,        \* wall clock, in days
    doc,          \* the persisted cache document
    proc,         \* task -> the OS process (event loop) it runs in
    variant,      \* the cache module the run imports: "util" (scripts/util)
                  \* or "utils" (scripts/utils, whose key has the preludes)
    CACHE_LOCK,   \* process -> task holding that process's _CACHE_LOCK
    pc,           \* task -> position in the operation it runs
    journals,     \* JournalRunContext._journals / the journal argument
    to_process,   \* JournalRunContext.to_process
    skipped,      \* JournalRunContext.skipped
    reported,     \* JournalRunContext._reported
    script_key,   \* JournalRunContext._script_key / local variable key
    exc,          \* exc_type is not None at __aexit__
    cache,        \* local variable cache (the root of a CacheModel)
    now,          \* local variable now
    todo,         \* journals a loop has still to visit
    ret,          \* outcome of the task's last finished operation
    tasks,        \* the tasks that run operations
    args,         \* arguments and local variables of the call of a
                  \* function that is run on its own
    hledger,      \* the script body's per-journal coroutines (journal ->
                  \* position) and the _SUBPROCESS_SEMAPHORE they share
    budget,       \* operations, edits and ticks still allowed
    ident,        \* history: script bytes and preludes read when the key
                  \* of the running operation was computed
    dirty,        \* history: journals edited, or committed under the
                  \* session's key by another operation, since the session
                  \* decided them at enter
    stale,        \* history: journals edited since the session reported
                  \* them (or confirmed them unchanged at enter)
    hashed,       \* history: reported journals the running exit has hashed
                  \* and stored, not edited since
    okAt,         \* history: key -> journal -> time of the last successful
                  \* exit that committed the reported journal, set when that
                  \* exit has written the cache while no other operation on
                  \* the journal was in progress; NoTime once the journal is
                  \* edited or a session under the key has decided it at
                  \* enter
    pending,      \* history: key -> <<journal, reported>> for the journals
                  \* a failed session had to process (and whether it had
                  \* reported them), neither edited nor committed since
    commits       \* history: <<script bytes, preludes, journal>> of every
                  \* fingerprint computed by a successful exit or a mark

envVars == <<disk, script, preludes, clock>>
sessVars == <<journals, to_process, skipped, reported, script_key, exc>>
localVars == <<cache, now, todo, ret>>
histVars == <<ident, dirty, stale, hashed, okAt, pending, commits>>
vars == <<disk, script, preludes, clock, doc, proc, variant, args, hledger, CACHE_LOCK, pc, journals,
          to_process, skipped, reported, script_key, exc, cache, now, todo,
          ret, tasks, budget, ident, dirty, stale, hashed, okAt, pending,
          commits>>

\* ------------------------------------------------------------ data model
sha256(data) == <<"sha256", data>>

Hashes == {sha256(c) : c \in Contents}

\* class FileEntryModel
FileEntryModel(h, t) == [hash |-> h, last_success |-> t]

\* class ScriptEntryModel: ScriptEntryModel() has no last_access and no files
ScriptEntryModel == [last_access |-> NoTime, files |-> <<>>]

\* class CacheModel: CacheModel(root={})
CacheModel == <<>>

\* the key of scripts/util has no `+preludes@` component
NoPreludes == <<"none", "">>

NoKey == [name |-> "none", hash |-> <<"sha256", "none">>, preludes |-> NoPreludes]

\* a key made of the script's name alone
script_key_from_name(data) ==
    [name |-> ScriptName, hash |-> sha256(""), preludes |-> NoPreludes]

\* f"{Path(script_id).name}@{sha256(data).hexdigest()}"
script_key_from(data) ==
    [name |-> ScriptName, hash |-> sha256(data), preludes |-> NoPreludes]

\* a key that leaves the preludes out
script_key_without_preludes(data, prel) == script_key_from(data)

\* scripts/utils: `<script-file-name>@<sha256 of script file bytes>` followed
\* by `+preludes@<combined hash of the preludes directory>`
script_key_with_preludes(data, prel) ==
    [name |-> ScriptName, hash |-> sha256(data), preludes |-> sha256(prel)]

\* key = await script_key_from(script_id), in the module the run imports
script_key_of(v, data, prel) ==
    IF v = "utils" THEN script_key_with_preludes(data, prel)
    ELSE script_key_from(data)

Keys == {script_key_of(v, b, q) :
            v \in {"util", "utils"}, b \in Bytes, q \in Preludes}

\* dict.setdefault(key, ScriptEntryModel())
setdefault(root, key) ==
    IF key \in DOMAIN root THEN root
    ELSE [k \in DOMAIN root \cup {key} |->
             IF k = key THEN ScriptEntryModel ELSE root[k]]

\* root[key] = entry
put(root, key, entry) ==
    [k \in DOMAIN root \cup {key} |-> IF k = key THEN entry ELSE root[k]]

\* the persisted document: no file, a truncated file (empty or partly
\* written), text that is not a valid cache, or the JSON of a cache
NoDoc == [state |-> "missing", root |-> CacheModel]
TruncatedDoc == [state |-> "empty", root |-> CacheModel]

\* content.model_dump_json(indent=2, exclude_none=True)
model_dump_json(root) == [state |-> "valid", root |-> root]

\* text that is not JSON, and JSON that CacheModel does not validate: both
\* are written around the cache that a reader without checks would find
UnparseableDoc(root) == [state |-> "unparseable", root |-> root]

InvalidDoc(root) == [state |-> "invalid", root |-> root]

\* a read that takes whatever records it finds in the text
read_script_cache_lenient(d) ==
    IF d.state \in {"valid", "unparseable", "invalid"} THEN d.root ELSE CacheModel

\* read_script_cache: a missing, empty or invalid file reads as the empty cache
read_script_cache(d) == IF d.state = "valid" THEN d.root ELSE CacheModel

\* an eviction that removes every record
evict_everything(root, t) == CacheModel

\* an eviction that removes nothing
evict_nothing(root, t) == root

\* evict_old_scripts(cache) run at wall-clock time t
evict_old_scripts(root, t) ==
    LET threshold == t - days
        kept == {k \in DOMAIN root :
                    ~(root[k].last_access # NoTime
                      /\ root[k].last_access < threshold)}
        keptFiles(fs) == {f \in DOMAIN fs :
                             /\ fs[f].last_success # NoTime
                             /\ ~(fs[f].last_success < threshold)}
    IN  [k \in kept |->
            [root[k] EXCEPT !.files =
                [f \in keptFiles(root[k].files) |-> root[k].files[f]]]]

Min(S) == CHOOSE x \in S : \A y \in S : x <= y

\* no function is run on its own
NoArgs == <<>>

\* asyncio.BoundedSemaphore(value)
BoundedSemaphore(value) == [bound_value |-> value, value |-> value]

\* ------------------------------------------------------------- histories
NoIdent == [bytes |-> "none", preludes |-> "none"]

\* a fingerprint of journal f is computed for the key of task t by an
\* operation that records it: other sessions under that key see f dirty
dirtyOnCommit(t, f) ==
    [u \in Tasks |-> IF u # t /\ script_key[u] = script_key[t]
                        /\ f \in to_process[u]
                     THEN dirty[u] \cup {f} ELSE dirty[u]]

\* an operation of another task on journal f is in progress
busy(t, f) == \E u \in Tasks \ {t} : f \in journals[u]

pendingOnCommit(k, f) == [pending EXCEPT ![k] = {x \in @ : x[1] # f}]

commitsOnCommit(t, f) == commits \cup {<<ident[t].bytes, ident[t].preludes, f>>}

\* ------------------------------------------------------------------ Init
InitState(d, n) ==
    /\ disk = [f \in Files |-> "c1"]
    /\ script = "b1"
    /\ preludes = "v1"
    /\ clock = 0
    /\ doc = d
    /\ CACHE_LOCK = [p \in Procs |-> NoTask]
    /\ pc = [t \in Tasks |-> "idle"]
    /\ journals = [t \in Tasks |-> {}]
    /\ to_process = [t \in Tasks |-> {}]
    /\ skipped = [t \in Tasks |-> {}]
    /\ reported = [t \in Tasks |-> {}]
    /\ script_key = [t \in Tasks |-> NoKey]
    /\ exc = [t \in Tasks |-> FALSE]
    /\ cache = [t \in Tasks |-> CacheModel]
    /\ now = [t \in Tasks |-> NoTime]
    /\ todo = [t \in Tasks |-> {}]
    /\ ret = [t \in Tasks |-> "none"]
    /\ ident = [t \in Tasks |-> NoIdent]
    /\ dirty = [t \in Tasks |-> {}]
    /\ stale = [t \in Tasks |-> {}]
    /\ hashed = [t \in Tasks |-> {}]
    /\ okAt = [k \in Keys |-> [f \in Files |-> NoTime]]
    /\ pending = [k \in Keys |-> {}]
    /\ commits = {}
    /\ args = NoArgs
    /\ hledger = [coro |-> [j \in Files |-> "none"],
                  semaphore |-> BoundedSemaphore(n)]

\* a machine where cpu_count() is unknown
InitWith(d) == InitState(d, 4)

\* no cache file yet
InitCommon == InitWith(NoDoc)

\* the tasks of one script run share one event loop and one _CACHE_LOCK
budget_of(o, e, k) == [ops |-> o, edits |-> e, ticks |-> k]

Init ==
    /\ InitCommon
    /\ variant = "util"
    /\ proc = [t \in Tasks |-> "p1"]
    /\ tasks = Tasks
    /\ budget = budget_of(MaxOps, MaxEdits, MaxTicks)

\* one task at a time: a longer run of operations, one after the other
InitSeq ==
    /\ InitCommon
    /\ variant = "util"
    /\ proc = [t \in Tasks |-> "p1"]
    /\ tasks = {"t1"}
    /\ budget = budget_of(MaxOps + 1, MaxEdits, MaxTicks)

\* two script runs at the same time: two processes, each with its own
\* lock, over journals and a script that nobody edits
InitProcs ==
    /\ InitCommon
    /\ variant = "util"
    /\ proc = [t \in Tasks |-> IF t = "t1" THEN "p1" ELSE "p2"]
    /\ tasks = Tasks
    /\ budget = budget_of(MaxOps + 1, 0, 0)

\* a run of the scripts as check.py imports them (scripts/utils): the key
\* has the preludes component
InitPreludes ==
    /\ InitCommon
    /\ variant = "utils"
    /\ proc = [t \in Tasks |-> "p1"]
    /\ tasks = Tasks
    /\ budget = budget_of(MaxOps, MaxEdits, MaxTicks)

\* the cache file that a successful session of the script writes at time 0
\* after reporting every journal
WarmDoc ==
    model_dump_json(
        [k \in {script_key_from("b1")} |->
            [last_access |-> 0,
             files |-> [f \in Files |-> FileEntryModel(sha256("c1"), 0)]]])

\* the cache files that read_script_cache does not load: none, an empty
\* one, and the cache of the earlier run damaged into text that does not
\* parse or does not validate
FailOpenDocs ==
    {NoDoc, TruncatedDoc, UnparseableDoc(WarmDoc.root), InvalidDoc(WarmDoc.root)}

\* one task's operations, the first of which finds such a file
InitFailOpen ==
    /\ \E d \in FailOpenDocs : InitWith(d)
    /\ variant = "util"
    /\ proc = [t \in Tasks |-> "p1"]
    /\ tasks = {"t1"}
    /\ budget = budget_of(MaxOps, MaxEdits, MaxTicks)

\* a script run that finds the cache of an earlier run
InitWarm ==
    /\ InitWith(WarmDoc)
    /\ variant = "util"
    /\ proc = [t \in Tasks |-> "p1"]
    /\ tasks = Tasks
    /\ budget = budget_of(MaxOps, MaxEdits, MaxTicks)

\* --------------------------------------------------------------- helpers
\* the tasks are interchangeable: a new operation goes to t1 when t1 is idle
may_start(t) ==
    /\ t \in tasks
    /\ pc[t] = "idle"
    /\ budget.ops > 0
    /\ (t = "t1" \/ pc["t1"] # "idle")

\* async with _CACHE_LOCK: Lock.acquire when the lock is free
lock_free(t) == CACHE_LOCK[proc[t]] = NoTask

\* entering the critical section without waiting for the lock
acquire_without_waiting(t) == CACHE_LOCK' = [CACHE_LOCK EXCEPT ![proc[t]] = t]

acquire(t) ==
    /\ lock_free(t)
    /\ CACHE_LOCK' = [CACHE_LOCK EXCEPT ![proc[t]] = t]

\* the operation of task t ends inside `async with _CACHE_LOCK`: the lock is
\* released and the operation's objects are gone
Return(t, r) ==
    /\ CACHE_LOCK' = [CACHE_LOCK EXCEPT ![proc[t]] = NoTask]
    /\ pc' = [pc EXCEPT ![t] = "idle"]
    /\ ret' = [ret EXCEPT ![t] = r]
    /\ journals' = [journals EXCEPT ![t] = {}]
    /\ to_process' = [to_process EXCEPT ![t] = {}]
    /\ skipped' = [skipped EXCEPT ![t] = {}]
    /\ reported' = [reported EXCEPT ![t] = {}]
    /\ script_key' = [script_key EXCEPT ![t] = NoKey]
    /\ exc' = [exc EXCEPT ![t] = FALSE]
    /\ cache' = [cache EXCEPT ![t] = CacheModel]
    /\ now' = [now EXCEPT ![t] = NoTime]
    /\ todo' = [todo EXCEPT ![t] = {}]
    /\ ident' = [ident EXCEPT ![t] = NoIdent]
    /\ dirty' = [dirty EXCEPT ![t] = {}]
    /\ stale' = [stale EXCEPT ![t] = {}]
    /\ hashed' = [hashed EXCEPT ![t] = {}]

\* the operation of task t ends outside `async with _CACHE_LOCK`
ReturnUnlocked(t, r) ==
    /\ pc' = [pc EXCEPT ![t] = "idle"]
    /\ ret' = [ret EXCEPT ![t] = r]
    /\ journals' = [journals EXCEPT ![t] = {}]
    /\ to_process' = [to_process EXCEPT ![t] = {}]
    /\ skipped' = [skipped EXCEPT ![t] = {}]
    /\ reported' = [reported EXCEPT ![t] = {}]
    /\ script_key' = [script_key EXCEPT ![t] = NoKey]
    /\ exc' = [exc EXCEPT ![t] = FALSE]
    /\ cache' = [cache EXCEPT ![t] = CacheModel]
    /\ now' = [now EXCEPT ![t] = NoTime]
    /\ todo' = [todo EXCEPT ![t] = {}]
    /\ ident' = [ident EXCEPT ![t] = NoIdent]
    /\ dirty' = [dirty EXCEPT ![t] = {}]
    /\ stale' = [stale EXCEPT ![t] = {}]
    /\ hashed' = [hashed EXCEPT ![t] = {}]
    /\ UNCHANGED CACHE_LOCK

\* the journals that the next step of task t opens with file_hash
file_hash_of(t) ==
    IF pc[t] \in {"enter_loop", "exit_reported"} THEN {Min(todo[t])}
    ELSE IF pc[t] = "exit_skipped"
    THEN {Min(todo[t])} \ DOMAIN cache[t][script_key[t]].files
    ELSE IF pc[t] \in {"skip_hash", "mark_hash"} THEN journals[t]
    ELSE {}

\* file_hash(j) returns a digest or raises FileNotFoundError
readable(t) == \A j \in file_hash_of(t) : disk[j] # Unreadable

\* file_hash raises an OSError that no handler of this module catches: it
\* leaves `async with _CACHE_LOCK` and the operation, and nothing is written
HashRaises(t) ==
    /\ file_hash_of(t) # {}
    /\ ~readable(t)
    /\ Return(t, "PermissionError")
    /\ UNCHANGED <<envVars, doc, proc, variant, args, hledger, tasks, budget, okAt, pending,
                   commits>>

\* the comparison without the hash: any cached entry counts as unchanged
unchanged_any_entry(files, j, content) == j \in DOMAIN files

\* file_entry and file_entry.hash == cur_hash
unchanged(files, j, content) ==
    j \in DOMAIN files /\ files[j].hash = sha256(content)

\* a missing journal that has a cached entry counts as unchanged
skips_missing(files, j, content) ==
    j \in DOMAIN files /\ (content = Missing \/ files[j].hash = sha256(content))

\* __aenter__: `except FileNotFoundError: to_process.append(j)`, otherwise
\* skipped exactly when the cached hash is the current one
skips(files, j, content) ==
    content # Missing /\ unchanged(files, j, content)

\* ------------------------------------------------- JournalRunContext
\* JournalRunContext.__init__(script_id, journals)
New(t) ==
    /\ may_start(t)
    /\ \E js \in SUBSET Files \ {{}} :
          journals' = [journals EXCEPT ![t] = js]
    /\ budget' = [budget EXCEPT !.ops = @ - 1]
    /\ pc' = [pc EXCEPT ![t] = "aenter"]
    /\ ret' = [ret EXCEPT ![t] = "none"]
    /\ UNCHANGED <<envVars, doc, proc, variant, args, hledger, CACHE_LOCK, to_process, skipped,
                   reported, script_key, exc, cache, now, todo, tasks,
                   histVars>>

\* __aenter__: async with _CACHE_LOCK
EnterLock(t) ==
    /\ pc[t] = "aenter"
    /\ acquire(t)
    /\ pc' = [pc EXCEPT ![t] = "enter_read"]
    /\ UNCHANGED <<envVars, doc, proc, variant, args, hledger, sessVars, localVars, tasks, budget,
                   histVars>>

\* a read that opens the cache file with mode "w+t"
EnterRead_truncates(t) ==
    /\ pc[t] = "enter_read"
    /\ cache' = [cache EXCEPT ![t] = read_script_cache(TruncatedDoc)]
    /\ doc' = TruncatedDoc
    /\ pc' = [pc EXCEPT ![t] = "enter_key"]
    /\ UNCHANGED <<envVars, proc, variant, args, hledger, CACHE_LOCK, sessVars, now, todo, ret,
                   tasks, budget, histVars>>

\* a read that evicts what evict_old_scripts would, at the time of the read
EnterRead_evicts(t) ==
    /\ pc[t] = "enter_read"
    /\ cache' = [cache EXCEPT ![t] = evict_old_scripts(read_script_cache(doc), clock)]
    /\ pc' = [pc EXCEPT ![t] = "enter_key"]
    /\ UNCHANGED <<envVars, doc, proc, variant, args, hledger, CACHE_LOCK, sessVars, now, todo, ret,
                   tasks, budget, histVars>>

\* __aenter__: cache = await read_script_cache()
EnterRead(t) ==
    /\ pc[t] = "enter_read"
    /\ cache' = [cache EXCEPT ![t] = read_script_cache(doc)]
    /\ pc' = [pc EXCEPT ![t] = "enter_key"]
    /\ UNCHANGED <<envVars, doc, proc, variant, args, hledger, CACHE_LOCK, sessVars, now, todo, ret,
                   tasks, budget, histVars>>

\* __aenter__: key = await script_key_from(self.script_id), which raises
\* FileNotFoundError when the script cannot be read; entry = setdefault
EnterKey(t) ==
    /\ pc[t] = "enter_key"
    /\ IF script = Missing
       THEN /\ Return(t, "FileNotFoundError")
            /\ UNCHANGED <<envVars, doc, proc, variant, args, hledger, tasks, budget, okAt, pending,
                           commits>>
       ELSE /\ script_key' = [script_key EXCEPT ![t] = script_key_of(variant, script, preludes)]
            /\ cache' = [cache EXCEPT ![t] = setdefault(@, script_key_of(variant, script, preludes))]
            /\ ident' = [ident EXCEPT ![t] = [bytes |-> script, preludes |-> preludes]]
            /\ todo' = [todo EXCEPT ![t] = journals[t]]
            /\ pc' = [pc EXCEPT ![t] = "enter_loop"]
            /\ UNCHANGED <<envVars, doc, proc, variant, args, hledger, CACHE_LOCK, journals,
                           to_process, skipped, reported, exc, now, ret, tasks,
                           budget, dirty, stale, hashed, okAt, pending, commits>>

\* __aenter__: one turn of `for j in self._journals`; the lock is released
\* after the last one
EnterFile(t) ==
    /\ pc[t] = "enter_loop"
    /\ readable(t)
    /\ todo[t] # {}
    /\ LET j == Min(todo[t])
           skip == skips(cache[t][script_key[t]].files, j, disk[j])
           last == todo[t] = {j}
       IN  /\ skipped' = [skipped EXCEPT ![t] = IF skip THEN @ \cup {j} ELSE @]
           /\ to_process' = [to_process EXCEPT ![t] = IF skip THEN @ ELSE @ \cup {j}]
           /\ todo' = [todo EXCEPT ![t] = @ \ {j}]
           /\ dirty' = [dirty EXCEPT ![t] = @ \ {j}]
           /\ stale' = [stale EXCEPT ![t] = @ \ {j}]
           /\ okAt' = [okAt EXCEPT ![script_key[t]][j] = NoTime]
           /\ pc' = [pc EXCEPT ![t] = IF last THEN "body" ELSE "enter_loop"]
           /\ cache' = [cache EXCEPT ![t] = IF last THEN CacheModel ELSE @]
           /\ CACHE_LOCK' = [CACHE_LOCK EXCEPT ![proc[t]] = IF last THEN NoTask ELSE @]
    /\ UNCHANGED <<envVars, doc, proc, variant, args, hledger, journals, reported, script_key, exc,
                   now, ret, tasks, budget, ident, hashed, pending, commits>>

\* report_success without the membership test
report_success_unguarded(t) ==
    /\ pc[t] = "body"
    /\ \E j \in Files :
          /\ reported' = [reported EXCEPT ![t] = @ \cup {j}]
          /\ stale' = [stale EXCEPT ![t] = @ \ {j}]
    /\ UNCHANGED <<envVars, doc, proc, variant, args, hledger, CACHE_LOCK, pc, journals,
                   to_process, skipped, script_key, exc, cache, now, todo, ret,
                   tasks, budget, ident, dirty, hashed, okAt, pending, commits>>

\* report_success(journal): ValueError for a journal that is not managed
report_success(t) ==
    /\ pc[t] = "body"
    /\ \E j \in Files :
          IF j \in journals[t]
          THEN /\ reported' = [reported EXCEPT ![t] = @ \cup {j}]
               /\ stale' = [stale EXCEPT ![t] = @ \ {j}]
               /\ ret' = ret
          ELSE /\ ret' = [ret EXCEPT ![t] = "ValueError"]
               /\ UNCHANGED <<reported, stale>>
    /\ UNCHANGED <<envVars, doc, proc, variant, args, hledger, CACHE_LOCK, pc, journals, to_process,
                   skipped, script_key, exc, cache, now, todo, tasks, budget,
                   ident, dirty, hashed, okAt, pending, commits>>

\* the body of `async with JournalRunContext(...)` completes
BodyReturns(t) ==
    /\ pc[t] = "body"
    /\ exc' = [exc EXCEPT ![t] = FALSE]
    /\ pc' = [pc EXCEPT ![t] = "aexit"]
    /\ UNCHANGED <<envVars, doc, proc, variant, args, hledger, CACHE_LOCK, journals, to_process,
                   skipped, reported, script_key, localVars, tasks, budget,
                   histVars>>

\* the body raises: __aexit__ is called with exc_type set
BodyRaises(t) ==
    /\ pc[t] = "body"
    /\ exc' = [exc EXCEPT ![t] = TRUE]
    /\ pc' = [pc EXCEPT ![t] = "aexit"]
    /\ UNCHANGED <<envVars, doc, proc, variant, args, hledger, CACHE_LOCK, journals, to_process,
                   skipped, reported, script_key, localVars, tasks, budget,
                   histVars>>

\* __aexit__: async with _CACHE_LOCK
ExitLock(t) ==
    /\ pc[t] = "aexit"
    /\ acquire(t)
    /\ pc' = [pc EXCEPT ![t] = "exit_read"]
    /\ UNCHANGED <<envVars, doc, proc, variant, args, hledger, sessVars, localVars, tasks, budget,
                   histVars>>

\* __aexit__ without the test of exc_type: a failed body records files too
records_always(e) == TRUE

\* __aexit__: `if exc_type is None`
records_files(e) == ~e

\* where __aexit__ goes on once `left` journals remain in the loop over the
\* reported journals: that loop, the loop over the skipped ones, the eviction
after_reported(t, left) ==
    IF left # {} THEN <<"exit_reported", left>>
    ELSE IF skipped[t] # {} THEN <<"exit_skipped", skipped[t]>>
    ELSE <<"exit_evict", {}>>

after_skipped(left) ==
    IF left # {} THEN <<"exit_skipped", left>> ELSE <<"exit_evict", {}>>

\* __aexit__: cache = await read_script_cache(); now; entry = setdefault;
\* entry.last_access = now
ExitRead(t) ==
    /\ pc[t] = "exit_read"
    /\ LET key == script_key[t]
           root == setdefault(read_script_cache(doc), key)
           go == IF records_files(exc[t]) THEN after_reported(t, reported[t])
                 ELSE <<"exit_evict", {}>>
       IN  /\ cache' = [cache EXCEPT ![t] =
                          put(root, key, [root[key] EXCEPT !.last_access = clock])]
           /\ now' = [now EXCEPT ![t] = clock]
           /\ pc' = [pc EXCEPT ![t] = go[1]]
           /\ todo' = [todo EXCEPT ![t] = go[2]]
    /\ UNCHANGED <<envVars, doc, proc, variant, args, hledger, CACHE_LOCK, sessVars, ret, tasks, budget,
                   histVars>>

\* the hash is computed and no entry is written
set_nothing(root, key, j, h, t) == root

\* entry.files[str(j)] = FileEntryModel(hash=h, last_success=now)
set_file(root, key, j, h, t) ==
    put(root, key,
        [root[key] EXCEPT !.files =
            [f \in DOMAIN root[key].files \cup {j} |->
                IF f = j THEN FileEntryModel(h, t) ELSE root[key].files[f]]])

\* the skipped journal's entry is left as it was read
touch_nothing(root, key, j, t) == root

\* f_entry.last_success = now
touch_file(root, key, j, t) ==
    put(root, key, [root[key] EXCEPT !.files[j].last_success = t])

\* __aexit__: one turn of `for j in sorted(self._reported, key=fspath)`
ExitReported(t) ==
    /\ pc[t] = "exit_reported"
    /\ readable(t)
    /\ LET j == Min(todo[t])
           key == script_key[t]
           go == after_reported(t, todo[t] \ {j})
       IN  /\ pc' = [pc EXCEPT ![t] = go[1]]
           /\ todo' = [todo EXCEPT ![t] = go[2]]
           /\ IF disk[j] = Missing
              THEN UNCHANGED <<cache, dirty, hashed, pending, commits>>
              ELSE /\ cache' = [cache EXCEPT ![t] =
                                  set_file(@, key, j, sha256(disk[j]), now[t])]
                   /\ dirty' = dirtyOnCommit(t, j)
                   /\ hashed' = [hashed EXCEPT ![t] = @ \cup {j}]
                   /\ pending' = pendingOnCommit(key, j)
                   /\ commits' = commitsOnCommit(t, j)
    /\ UNCHANGED <<envVars, doc, proc, variant, args, hledger, CACHE_LOCK, sessVars, now, ret, tasks,
                   budget, ident, stale, okAt>>

\* __aexit__: one turn of `for j in sorted(self.skipped, key=fspath)`
ExitSkipped(t) ==
    /\ pc[t] = "exit_skipped"
    /\ readable(t)
    /\ LET j == Min(todo[t])
           key == script_key[t]
           go == after_skipped(todo[t] \ {j})
       IN  /\ pc' = [pc EXCEPT ![t] = go[1]]
           /\ todo' = [todo EXCEPT ![t] = go[2]]
           /\ IF j \in DOMAIN cache[t][key].files
              THEN /\ cache' = [cache EXCEPT ![t] = touch_file(@, key, j, now[t])]
                   /\ UNCHANGED <<dirty, pending, commits>>
              ELSE IF disk[j] = Missing
              THEN UNCHANGED <<cache, dirty, pending, commits>>
              ELSE /\ cache' = [cache EXCEPT ![t] =
                                  set_file(@, key, j, sha256(disk[j]), now[t])]
                   /\ dirty' = dirtyOnCommit(t, j)
                   /\ pending' = pendingOnCommit(key, j)
                   /\ commits' = commitsOnCommit(t, j)
    /\ UNCHANGED <<envVars, doc, proc, variant, args, hledger, CACHE_LOCK, sessVars, now, ret, tasks,
                   budget, ident, stale, hashed, okAt>>

\* __aexit__: evict_old_scripts(cache), then write_script_cache opens the
\* cache file with mode "w+t", which truncates it
ExitEvict(t) ==
    /\ pc[t] = "exit_evict"
    /\ cache' = [cache EXCEPT ![t] = evict_old_scripts(@, clock)]
    /\ doc' = TruncatedDoc
    /\ pc' = [pc EXCEPT ![t] = "exit_write"]
    /\ UNCHANGED <<envVars, proc, variant, args, hledger, CACHE_LOCK, sessVars, now, todo, ret, tasks,
                   budget, histVars>>

\* an __aexit__ that returns True when the body raised
aexit_swallows(e) == e

\* __aexit__: `return False`, whatever exc_type is
aexit_returns(e) == FALSE

\* what the caller of `async with` sees: the exception of the body unless
\* __aexit__ returned a true value
outcome(e) == IF e /\ ~aexit_returns(e) THEN "raised" ELSE "ok"

\* __aexit__: write_script_cache writes the text and closes the file; the
\* lock is released and False is returned, so an exception of the body
\* propagates
ExitWrite(t) ==
    /\ pc[t] = "exit_write"
    /\ doc' = model_dump_json(cache[t])
    /\ pending' = IF exc[t]
                  THEN [pending EXCEPT ![script_key[t]] =
                           @ \cup {<<f, f \in reported[t]>> :
                                      f \in to_process[t] \ dirty[t]}]
                  ELSE pending
    /\ okAt' = [okAt EXCEPT ![script_key[t]] =
                    [f \in Files |-> IF f \in hashed[t] /\ ~busy(t, f)
                                     THEN now[t] ELSE @[f]]]
    /\ Return(t, outcome(exc[t]))
    /\ UNCHANGED <<envVars, proc, variant, args, hledger, tasks, budget, commits>>

\* __aexit__ ends as in ExitWrite and the caller keeps the object: its
\* fields (_journals, to_process, skipped, _reported, _script_key) stay as
\* they are
ExitWriteKept(t) ==
    /\ pc[t] = "exit_write"
    /\ doc' = model_dump_json(cache[t])
    /\ pending' = IF exc[t]
                  THEN [pending EXCEPT ![script_key[t]] =
                           @ \cup {<<f, f \in reported[t]>> :
                                      f \in to_process[t] \ dirty[t]}]
                  ELSE pending
    /\ okAt' = [okAt EXCEPT ![script_key[t]] =
                    [f \in Files |-> IF f \in hashed[t] /\ ~busy(t, f)
                                     THEN now[t] ELSE @[f]]]
    /\ CACHE_LOCK' = [CACHE_LOCK EXCEPT ![proc[t]] = NoTask]
    /\ pc' = [pc EXCEPT ![t] = "exited"]
    /\ ret' = [ret EXCEPT ![t] = outcome(exc[t])]
    /\ cache' = [cache EXCEPT ![t] = CacheModel]
    /\ now' = [now EXCEPT ![t] = NoTime]
    /\ todo' = [todo EXCEPT ![t] = {}]
    /\ ident' = [ident EXCEPT ![t] = NoIdent]
    /\ dirty' = [dirty EXCEPT ![t] = {}]
    /\ stale' = [stale EXCEPT ![t] = {}]
    /\ hashed' = [hashed EXCEPT ![t] = {}]
    /\ UNCHANGED <<envVars, proc, variant, args, hledger, sessVars, tasks, budget, commits>>

\* the caller uses the object of a finished session in another
\* `async with`: __aenter__ has no test of the object's state and starts
\* again over the lists that the first use filled
Reenter(t) ==
    /\ pc[t] = "exited"
    /\ budget.ops > 0
    /\ budget' = [budget EXCEPT !.ops = @ - 1]
    /\ pc' = [pc EXCEPT ![t] = "aenter"]
    /\ exc' = [exc EXCEPT ![t] = FALSE]
    /\ ret' = [ret EXCEPT ![t] = "none"]
    /\ UNCHANGED <<envVars, doc, proc, variant, args, hledger, CACHE_LOCK, journals, to_process,
                   skipped, reported, script_key, cache, now, todo, tasks,
                   histVars>>

\* ------------------------------------------------- should_skip_journal
\* a caller calls should_skip_journal(script_id, journal)
SkipCall(t) ==
    /\ may_start(t)
    /\ \E j \in Files : journals' = [journals EXCEPT ![t] = {j}]
    /\ budget' = [budget EXCEPT !.ops = @ - 1]
    /\ pc' = [pc EXCEPT ![t] = "skip"]
    /\ ret' = [ret EXCEPT ![t] = "none"]
    /\ UNCHANGED <<envVars, doc, proc, variant, args, hledger, CACHE_LOCK, to_process, skipped,
                   reported, script_key, exc, cache, now, todo, tasks,
                   histVars>>

\* async with _CACHE_LOCK
SkipLock(t) ==
    /\ pc[t] = "skip"
    /\ acquire(t)
    /\ pc' = [pc EXCEPT ![t] = "skip_read"]
    /\ UNCHANGED <<envVars, doc, proc, variant, args, hledger, sessVars, localVars, tasks, budget,
                   histVars>>

\* cache = await read_script_cache()
SkipRead(t) ==
    /\ pc[t] = "skip_read"
    /\ cache' = [cache EXCEPT ![t] = read_script_cache(doc)]
    /\ pc' = [pc EXCEPT ![t] = "skip_key"]
    /\ UNCHANGED <<envVars, doc, proc, variant, args, hledger, CACHE_LOCK, sessVars, now, todo, ret,
                   tasks, budget, histVars>>

\* key = await script_key_from(script_id); entry = cache.root.get(key);
\* return False when there is no entry
SkipKey(t) ==
    /\ pc[t] = "skip_key"
    /\ IF script = Missing
       THEN /\ Return(t, "FileNotFoundError")
            /\ UNCHANGED <<envVars, doc, proc, variant, args, hledger, tasks, budget, okAt, pending,
                           commits>>
       ELSE IF script_key_of(variant, script, preludes) \notin DOMAIN cache[t]
       THEN /\ Return(t, "False")
            /\ UNCHANGED <<envVars, doc, proc, variant, args, hledger, tasks, budget, okAt, pending,
                           commits>>
       ELSE /\ script_key' = [script_key EXCEPT ![t] = script_key_of(variant, script, preludes)]
            /\ ident' = [ident EXCEPT ![t] = [bytes |-> script, preludes |-> preludes]]
            /\ pc' = [pc EXCEPT ![t] = "skip_hash"]
            /\ UNCHANGED <<envVars, doc, proc, variant, args, hledger, CACHE_LOCK, journals,
                           to_process, skipped, reported, exc, localVars,
                           tasks, budget, dirty, stale, hashed, okAt, pending,
                           commits>>

\* cur_hash = await file_hash(journal); return file_entry.hash == cur_hash
SkipHash(t) ==
    /\ pc[t] = "skip_hash"
    /\ readable(t)
    /\ LET j == Min(journals[t])
           skip == /\ disk[j] # Missing
                   /\ unchanged(cache[t][script_key[t]].files, j, disk[j])
       IN  Return(t, IF skip THEN "True" ELSE "False")
    /\ UNCHANGED <<envVars, doc, proc, variant, args, hledger, tasks, budget, okAt, pending, commits>>

\* ---------------------------------------------- mark_journal_processed
\* a caller calls mark_journal_processed(script_id, journal)
MarkCall(t) ==
    /\ may_start(t)
    /\ \E j \in Files : journals' = [journals EXCEPT ![t] = {j}]
    /\ budget' = [budget EXCEPT !.ops = @ - 1]
    /\ pc' = [pc EXCEPT ![t] = "mark"]
    /\ ret' = [ret EXCEPT ![t] = "none"]
    /\ UNCHANGED <<envVars, doc, proc, variant, args, hledger, CACHE_LOCK, to_process, skipped,
                   reported, script_key, exc, cache, now, todo, tasks,
                   histVars>>

\* async with _CACHE_LOCK
MarkLock(t) ==
    /\ pc[t] = "mark"
    /\ acquire(t)
    /\ pc' = [pc EXCEPT ![t] = "mark_read"]
    /\ UNCHANGED <<envVars, doc, proc, variant, args, hledger, sessVars, localVars, tasks, budget,
                   histVars>>

\* cache = await read_script_cache()
MarkRead(t) ==
    /\ pc[t] = "mark_read"
    /\ cache' = [cache EXCEPT ![t] = read_script_cache(doc)]
    /\ pc' = [pc EXCEPT ![t] = "mark_key"]
    /\ UNCHANGED <<envVars, doc, proc, variant, args, hledger, CACHE_LOCK, sessVars, now, todo, ret,
                   tasks, budget, histVars>>

\* key = await script_key_from(script_id); now; entry = setdefault;
\* entry.last_access = now
MarkKey(t) ==
    /\ pc[t] = "mark_key"
    /\ IF script = Missing
       THEN /\ Return(t, "FileNotFoundError")
            /\ UNCHANGED <<envVars, doc, proc, variant, args, hledger, tasks, budget, okAt, pending,
                           commits>>
       ELSE LET key == script_key_of(variant, script, preludes)
                root == setdefault(cache[t], key)
            IN  /\ script_key' = [script_key EXCEPT ![t] = key]
                /\ ident' = [ident EXCEPT ![t] = [bytes |-> script, preludes |-> preludes]]
                /\ cache' = [cache EXCEPT ![t] =
                               put(root, key, [root[key] EXCEPT !.last_access = clock])]
                /\ now' = [now EXCEPT ![t] = clock]
                /\ pc' = [pc EXCEPT ![t] = "mark_hash"]
                /\ UNCHANGED <<envVars, doc, proc, variant, args, hledger, CACHE_LOCK, journals,
                               to_process, skipped, reported, exc, todo, ret,
                               tasks, budget, dirty, stale, hashed, okAt, pending,
                               commits>>

\* a mark that takes the lock by hand and returns early without giving it
\* back
MarkHash_keeps_lock(t) ==
    /\ pc[t] = "mark_hash"
    /\ readable(t)
    /\ LET j == Min(journals[t])
           key == script_key[t]
       IN  IF disk[j] = Missing
           THEN /\ ReturnUnlocked(t, "None")
                /\ UNCHANGED <<envVars, doc, proc, variant, args, hledger, tasks, budget, okAt, pending,
                               commits>>
           ELSE /\ cache' = [cache EXCEPT ![t] =
                               set_file(@, key, j, sha256(disk[j]), now[t])]
                /\ dirty' = dirtyOnCommit(t, j)
                /\ pending' = pendingOnCommit(key, j)
                /\ commits' = commitsOnCommit(t, j)
                /\ pc' = [pc EXCEPT ![t] = "mark_evict"]
                /\ UNCHANGED <<envVars, doc, proc, variant, args, hledger, CACHE_LOCK, sessVars, now,
                               todo, ret, tasks, budget, ident, stale, hashed, okAt>>

\* a mark that goes on to evict and write when the journal is missing
MarkHash_persists(t) ==
    /\ pc[t] = "mark_hash"
    /\ readable(t)
    /\ LET j == Min(journals[t])
           key == script_key[t]
       IN  IF disk[j] = Missing
           THEN /\ pc' = [pc EXCEPT ![t] = "mark_evict"]
                /\ UNCHANGED <<envVars, doc, proc, variant, args, hledger, CACHE_LOCK, sessVars,
                               localVars, tasks, budget, histVars>>
           ELSE /\ cache' = [cache EXCEPT ![t] =
                               set_file(@, key, j, sha256(disk[j]), now[t])]
                /\ dirty' = dirtyOnCommit(t, j)
                /\ pending' = pendingOnCommit(key, j)
                /\ commits' = commitsOnCommit(t, j)
                /\ pc' = [pc EXCEPT ![t] = "mark_evict"]
                /\ UNCHANGED <<envVars, doc, proc, variant, args, hledger, CACHE_LOCK, sessVars, now,
                               todo, ret, tasks, budget, ident, stale, hashed, okAt>>

\* cur_hash = await file_hash(journal): return when the journal is missing,
\* otherwise entry.files[str(journal)] = FileEntryModel(cur_hash, now)
MarkHash(t) ==
    /\ pc[t] = "mark_hash"
    /\ readable(t)
    /\ LET j == Min(journals[t])
           key == script_key[t]
       IN  IF disk[j] = Missing
           THEN /\ Return(t, "None")
                /\ UNCHANGED <<envVars, doc, proc, variant, args, hledger, tasks, budget, okAt, pending,
                               commits>>
           ELSE /\ cache' = [cache EXCEPT ![t] =
                               set_file(@, key, j, sha256(disk[j]), now[t])]
                /\ dirty' = dirtyOnCommit(t, j)
                /\ pending' = pendingOnCommit(key, j)
                /\ commits' = commitsOnCommit(t, j)
                /\ pc' = [pc EXCEPT ![t] = "mark_evict"]
                /\ UNCHANGED <<envVars, doc, proc, variant, args, hledger, CACHE_LOCK, sessVars, now,
                               todo, ret, tasks, budget, ident, stale, hashed, okAt>>

\* evict_old_scripts(cache), then write_script_cache opens the cache file
\* with mode "w+t", which truncates it
MarkEvict(t) ==
    /\ pc[t] = "mark_evict"
    /\ cache' = [cache EXCEPT ![t] = evict_old_scripts(@, clock)]
    /\ doc' = TruncatedDoc
    /\ pc' = [pc EXCEPT ![t] = "mark_write"]
    /\ UNCHANGED <<envVars, proc, variant, args, hledger, CACHE_LOCK, sessVars, now, todo, ret, tasks,
                   budget, histVars>>

\* write_script_cache writes the text and closes the file; the lock is
\* released
MarkWrite(t) ==
    /\ pc[t] = "mark_write"
    /\ doc' = model_dump_json(cache[t])
    /\ Return(t, "None")
    /\ UNCHANGED <<envVars, proc, variant, args, hledger, tasks, budget, okAt, pending, commits>>

\* ------------------------------------------- the body of scripts/check.py
\* the positions of a check_journal coroutine: not created, created and
\* scheduled by gather, waiting for a slot of the semaphore, running hledger
\* in a slot, returned after report_success, and raised
CoroPcs == {"none", "pending", "waiting", "running", "done", "failed"}

\* os.cpu_count(): None (0 here) when it cannot be determined
cpu_counts == {0, 1, 2}

\* BoundedSemaphore(cpu_count() or 4)
cpu_count_or_4(c) == IF c = 0 THEN 4 ELSE c

\* await gather_and_raise(*map(check_journal, run.to_process)): the
\* coroutines are created and gather schedules them
GatherStart(t) ==
    /\ pc[t] = "body"
    /\ hledger' = [hledger EXCEPT !.coro =
                      [j \in Files |-> IF j \in to_process[t] THEN "pending" ELSE "none"]]
    /\ pc' = [pc EXCEPT ![t] = "gather"]
    /\ UNCHANGED <<envVars, doc, proc, variant, args, CACHE_LOCK, sessVars, localVars,
                   tasks, budget, histVars>>

\* a gather that passes on the first exception while the other coroutines
\* go on
gathered_first_exception(t) ==
    \/ \A j \in to_process[t] : hledger.coro[j] \in {"done", "failed"}
    \/ \E j \in to_process[t] : hledger.coro[j] = "failed"

\* results = await gather(*awaitables, return_exceptions=True): every
\* awaitable has a result or an exception
gathered(t) ==
    \A j \in to_process[t] : hledger.coro[j] \in {"done", "failed"}

\* gather_and_raise returns, or raises BaseExceptionGroup when an awaitable
\* raised; the body of the `async with` ends either way
GatherDone(t) ==
    /\ pc[t] = "gather"
    /\ gathered(t)
    /\ exc' = [exc EXCEPT ![t] = \E j \in to_process[t] : hledger.coro[j] = "failed"]
    /\ pc' = [pc EXCEPT ![t] = "aexit"]
    /\ UNCHANGED <<envVars, doc, proc, variant, args, hledger, CACHE_LOCK, journals,
                   to_process, skipped, reported, script_key, localVars, tasks,
                   budget, histVars>>

\* a run_hledger that starts its subprocess without looking at the
\* semaphore
CoroCall_unbounded(t, j) ==
    /\ j \in to_process[t]
    /\ hledger.coro[j] = "pending"
    /\ \E found \in BOOLEAN :
          hledger' =
              IF ~found THEN [hledger EXCEPT !.coro[j] = "failed"]
              ELSE [hledger EXCEPT !.coro[j] = "running",
                                   !.semaphore.value = @ - 1]
    /\ UNCHANGED <<envVars, doc, proc, variant, args, CACHE_LOCK, pc, sessVars, localVars,
                   tasks, budget, histVars>>

\* check_journal(j) starts: run_hledger raises FileNotFoundError when there
\* is no hledger, otherwise `async with _SUBPROCESS_SEMAPHORE` takes a slot
\* at once when one is free and waits when none is
CoroCall(t, j) ==
    /\ j \in to_process[t]
    /\ hledger.coro[j] = "pending"
    /\ \E found \in BOOLEAN :
          hledger' =
              IF ~found THEN [hledger EXCEPT !.coro[j] = "failed"]
              ELSE IF hledger.semaphore.value > 0
              THEN [hledger EXCEPT !.coro[j] = "running",
                                   !.semaphore.value = @ - 1]
              ELSE [hledger EXCEPT !.coro[j] = "waiting"]
    /\ UNCHANGED <<envVars, doc, proc, variant, args, CACHE_LOCK, pc, sessVars, localVars,
                   tasks, budget, histVars>>

\* Semaphore.acquire of a waiting coroutine succeeds after a release
CoroAcquire(t, j) ==
    /\ j \in to_process[t]
    /\ hledger.coro[j] = "waiting"
    /\ hledger.semaphore.value > 0
    /\ hledger' = [hledger EXCEPT !.coro[j] = "running", !.semaphore.value = @ - 1]
    /\ UNCHANGED <<envVars, doc, proc, variant, args, CACHE_LOCK, pc, sessVars, localVars,
                   tasks, budget, histVars>>

\* hledger exits with code 0: the `async with` releases the slot,
\* run_hledger returns and check_journal calls run.report_success(journal)
CoroReturns(t, j) ==
    /\ j \in to_process[t]
    /\ hledger.coro[j] = "running"
    /\ hledger' = [hledger EXCEPT !.coro[j] = "done", !.semaphore.value = @ + 1]
    /\ reported' = [reported EXCEPT ![t] = @ \cup {j}]
    /\ stale' = [stale EXCEPT ![t] = @ \ {j}]
    /\ UNCHANGED <<envVars, doc, proc, variant, args, CACHE_LOCK, pc, journals,
                   to_process, skipped, script_key, exc, localVars, tasks, budget,
                   ident, dirty, hashed, okAt, pending, commits>>

\* the subprocess cannot be created or exits with another code
\* (CalledProcessError): the `async with` releases the slot and the
\* exception leaves check_journal
CoroRaises(t, j) ==
    /\ j \in to_process[t]
    /\ hledger.coro[j] = "running"
    /\ hledger' = [hledger EXCEPT !.coro[j] = "failed", !.semaphore.value = @ + 1]
    /\ UNCHANGED <<envVars, doc, proc, variant, args, CACHE_LOCK, pc, sessVars, localVars,
                   tasks, budget, histVars>>

\* ----------------------------------------------------------- environment
\* The environment acts at any time; the program observes what it did only
\* when it next reads a file or the clock.  The model therefore lets an
\* edit happen right before a step that reads the edited file (or while a
\* session body runs, where the order of edit and report matters), and lets
\* time pass right before an operation takes the lock.

\* the journals whose content the next step of task t reads
reads_next(t) ==
    IF pc[t] \in {"enter_loop", "exit_reported", "exit_skipped"}
    THEN {Min(todo[t])}
    ELSE IF pc[t] \in {"skip_hash", "mark_hash", "body"} THEN journals[t]
    ELSE {}

\* a journal is rewritten with other bytes, created or deleted (by a
\* script that processes it, by an editor)
EditJournal ==
    /\ budget.edits > 0
    /\ \E f \in UNION {reads_next(t) : t \in Tasks} :
       \E c \in (Contents \cup {Missing}) \ {disk[f]} :
          /\ disk' = [disk EXCEPT ![f] = c]
          /\ dirty' = [t \in Tasks |->
                          IF f \in to_process[t] THEN dirty[t] \cup {f} ELSE dirty[t]]
          /\ stale' = [t \in Tasks |->
                          IF f \in reported[t] \cup skipped[t]
                          THEN stale[t] \cup {f} ELSE stale[t]]
          /\ hashed' = [t \in Tasks |-> hashed[t] \ {f}]
          /\ okAt' = [k \in Keys |-> [okAt[k] EXCEPT ![f] = NoTime]]
          /\ pending' = [k \in Keys |-> {x \in pending[k] : x[1] # f}]
    /\ budget' = [budget EXCEPT !.edits = @ - 1]
    /\ UNCHANGED <<script, preludes, clock, doc, proc, variant, args, hledger, CACHE_LOCK, pc,
                   sessVars, localVars, tasks, ident, commits>>

\* a journal loses its read permission (or is replaced by a directory)
DenyJournal ==
    /\ budget.edits > 0
    /\ \E f \in UNION {reads_next(t) : t \in Tasks} :
          /\ disk[f] # Unreadable
          /\ disk' = [disk EXCEPT ![f] = Unreadable]
          /\ dirty' = [t \in Tasks |->
                          IF f \in to_process[t] THEN dirty[t] \cup {f} ELSE dirty[t]]
          /\ stale' = [t \in Tasks |->
                          IF f \in reported[t] \cup skipped[t]
                          THEN stale[t] \cup {f} ELSE stale[t]]
          /\ hashed' = [t \in Tasks |-> hashed[t] \ {f}]
          /\ okAt' = [k \in Keys |-> [okAt[k] EXCEPT ![f] = NoTime]]
          /\ pending' = [k \in Keys |-> {x \in pending[k] : x[1] # f}]
    /\ budget' = [budget EXCEPT !.edits = @ - 1]
    /\ UNCHANGED <<script, preludes, clock, doc, proc, variant, args, hledger, CACHE_LOCK, pc,
                   sessVars, localVars, tasks, ident, commits>>

\* some task is about to compute its script key
reads_script == \E t \in Tasks : pc[t] \in {"enter_key", "skip_key", "mark_key"}

\* the calling script is edited or removed
EditScript ==
    /\ budget.edits > 0
    /\ reads_script
    /\ \E b \in (Bytes \cup {Missing}) \ {script} : script' = b
    /\ budget' = [budget EXCEPT !.edits = @ - 1]
    /\ UNCHANGED <<disk, preludes, clock, doc, proc, variant, args, hledger, CACHE_LOCK, pc,
                   sessVars, localVars, tasks, histVars>>

\* a file of the preludes directory is edited
EditPreludes ==
    /\ budget.edits > 0
    /\ reads_script
    /\ \E v \in Preludes \ {preludes} : preludes' = v
    /\ budget' = [budget EXCEPT !.edits = @ - 1]
    /\ UNCHANGED <<disk, script, clock, doc, proc, variant, args, hledger, CACHE_LOCK, pc, sessVars,
                   localVars, tasks, histVars>>

\* time passes; a critical section (file reads and one write) takes far
\* less than a tick, so no tick falls inside one
Tick ==
    /\ budget.ticks > 0
    /\ \A p \in Procs : CACHE_LOCK[p] = NoTask
    /\ \E t \in Tasks : pc[t] \in {"aenter", "aexit", "skip", "mark"}
    /\ clock' = clock + TickDays
    /\ budget' = [budget EXCEPT !.ticks = @ - 1]
    /\ UNCHANGED <<disk, script, preludes, doc, proc, variant, args, hledger, CACHE_LOCK, pc,
                   sessVars, localVars, tasks, histVars>>

\* ------------------------------------------------------------------ Next
Session(t) ==
    \/ New(t) \/ EnterLock(t) \/ EnterRead(t) \/ EnterKey(t) \/ EnterFile(t)
    \/ report_success(t) \/ BodyReturns(t) \/ BodyRaises(t)
    \/ ExitLock(t) \/ ExitRead(t) \/ ExitReported(t) \/ ExitSkipped(t)
    \/ ExitEvict(t) \/ ExitWrite(t)

ShouldSkip(t) ==
    SkipCall(t) \/ SkipLock(t) \/ SkipRead(t) \/ SkipKey(t) \/ SkipHash(t)

Mark(t) ==
    \/ MarkCall(t) \/ MarkLock(t) \/ MarkRead(t) \/ MarkKey(t) \/ MarkHash(t)
    \/ MarkEvict(t) \/ MarkWrite(t)

NextOps == \E t \in Tasks : Session(t) \/ ShouldSkip(t) \/ Mark(t)

Next ==
    \/ NextOps
    \/ EditJournal
    \/ EditScript
    \/ Tick

NextPreludes == Next \/ EditPreludes

NextUnreadable ==
    \/ Next
    \/ DenyJournal
    \/ \E t \in Tasks : HashRaises(t)

Spec == Init /\ [][Next]_vars

SpecSeq == InitSeq /\ [][Next]_vars

SpecFailOpen == InitFailOpen /\ [][Next]_vars

\* runs of scripts/check.py, one after the other, on a machine with one of
\* the cpu counts
InitCheck ==
    /\ \E c \in cpu_counts : InitState(NoDoc, cpu_count_or_4(c))
    /\ variant = "utils"
    /\ proc = [t \in Tasks |-> "p1"]
    /\ tasks = {"t1"}
    /\ budget = budget_of(MaxOps, MaxEdits, MaxTicks)

Check(t) ==
    \/ New(t) \/ EnterLock(t) \/ EnterRead(t) \/ EnterKey(t) \/ EnterFile(t)
    \/ GatherStart(t) \/ GatherDone(t)
    \/ ExitLock(t) \/ ExitRead(t) \/ ExitReported(t) \/ ExitSkipped(t)
    \/ ExitEvict(t) \/ ExitWrite(t)

Coro(t, j) ==
    CoroCall(t, j) \/ CoroAcquire(t, j) \/ CoroReturns(t, j) \/ CoroRaises(t, j)

NextCheck ==
    \/ \E t \in Tasks : Check(t)
    \/ \E t \in Tasks : \E j \in Files : Coro(t, j)
    \/ EditJournal
    \/ Tick

SpecCheck == InitCheck /\ [][NextCheck]_vars

\* the event loop runs every coroutine that can run, and a hledger
\* subprocess that was started ends
SpecHledger ==
    /\ InitCheck
    /\ [][NextCheck]_vars
    /\ \A j \in Files :
          /\ WF_vars(\E t \in Tasks : CoroCall(t, j))
          /\ WF_vars(\E t \in Tasks : CoroAcquire(t, j))
          /\ WF_vars(\E t \in Tasks : CoroReturns(t, j) \/ CoroRaises(t, j))

\* a caller that uses the two functions directly, one call after the other
NextMarks ==
    \/ \E t \in Tasks : ShouldSkip(t) \/ Mark(t)
    \/ EditJournal
    \/ EditScript
    \/ Tick

SpecMarks == InitSeq /\ [][NextMarks]_vars

SpecProcs == InitProcs /\ [][NextOps]_vars

SpecPreludes == InitPreludes /\ [][NextPreludes]_vars

SpecUnreadable == InitSeq /\ [][NextUnreadable]_vars

SpecWarm == InitWarm /\ [][Next]_vars

NextReuse ==
    \/ Next
    \/ \E t \in Tasks : ExitWriteKept(t) \/ Reenter(t)

SpecReuse == InitSeq /\ [][NextReuse]_vars

\* ------------------------------------------------- evict_old_scripts
\* evict_old_scripts is also called on caches built without validation
\* (model_construct, cast, values of older cache versions): every value it
\* tests with isinstance or guards with try/except has a kind here.

\* a last_access / last_success whose timestamp() raises
BadTime == 0 - 2

\* None, malformed, and dates 0, 1 and 2 ticks into the run
Stamps == {NoTime, BadTime, 0, TickDays, 2 * TickDays}

\* values of entry.files[f]: a FileEntryModel or something else
AnyFileEntry ==
    {[kind |-> "other", hash |-> sha256("c1"), last_success |-> NoTime]}
    \cup {[kind |-> "FileEntryModel", hash |-> sha256("c1"), last_success |-> s] :
              s \in Stamps}

\* values of entry.files: a dict of such values or something else
AnyFiles ==
    {[kind |-> "other", map |-> <<>>]}
    \cup {[kind |-> "dict", map |-> m] :
              m \in UNION {[S -> AnyFileEntry] : S \in SUBSET Files}}

\* values of cache.root[k]: a ScriptEntryModel or something else
AnyEntry ==
    {[kind |-> "other", last_access |-> NoTime,
      files |-> [kind |-> "other", map |-> <<>>]]}
    \cup {[kind |-> "ScriptEntryModel", last_access |-> a, files |-> fs] :
              a \in Stamps, fs \in AnyFiles}

EvictKeys == {script_key_from(b) : b \in Bytes}

AnyRoot == UNION {[S -> AnyEntry] : S \in SUBSET EvictKeys}

\* an eviction that looks at the dates only: whatever has no date, or no
\* readable one, stays
evict_dated_only(root, t) ==
    [k \in {x \in DOMAIN root :
               ~(root[x].kind = "ScriptEntryModel"
                 /\ root[x].last_access \notin {NoTime, BadTime}
                 /\ root[x].last_access < t - days)} |->
        IF root[k].kind = "ScriptEntryModel" /\ root[k].files.kind = "dict"
        THEN [root[k] EXCEPT !.files.map =
                 [f \in {g \in DOMAIN root[k].files.map :
                            ~(/\ root[k].files.map[g].kind = "FileEntryModel"
                              /\ root[k].files.map[g].last_success \notin {NoTime, BadTime}
                              /\ root[k].files.map[g].last_success < t - days)}
                    |-> root[k].files.map[f]]]
        ELSE root[k]]

\* an eviction that only prunes the files of each record
evict_files_only(root, t) ==
    [k \in DOMAIN root |->
        IF root[k].kind = "ScriptEntryModel" /\ root[k].files.kind = "dict"
        THEN [root[k] EXCEPT !.files.map =
                 [f \in {g \in DOMAIN root[k].files.map :
                            /\ root[k].files.map[g].kind = "FileEntryModel"
                            /\ root[k].files.map[g].last_success \notin {NoTime, BadTime}
                            /\ ~(root[k].files.map[g].last_success < t - days)}
                    |-> root[k].files.map[f]]]
        ELSE root[k]]

\* an eviction that treats a record without last_access as stale
evict_undated_records(root, t) ==
    LET threshold == t - days
        keepEntry(e) ==
            /\ e.kind = "ScriptEntryModel"
            /\ e.last_access # NoTime
            /\ e.last_access # BadTime
            /\ ~(e.last_access < threshold)
        keepFile(fe) ==
            /\ fe.kind = "FileEntryModel"
            /\ fe.last_success # NoTime
            /\ fe.last_success # BadTime
            /\ ~(fe.last_success < threshold)
        prune(fs) ==
            IF fs.kind # "dict" THEN fs
            ELSE [fs EXCEPT !.map =
                     [f \in {g \in DOMAIN fs.map : keepFile(fs.map[g])} |->
                         fs.map[f]]]
    IN  [k \in {x \in DOMAIN root : keepEntry(root[x])} |->
            [root[k] EXCEPT !.files = prune(@)]]

\* evict_old_scripts(cache), statement by statement, at wall-clock time t
evict_old_scripts_any(root, t) ==
    LET threshold == t - days
        keepEntry(e) ==
            /\ e.kind = "ScriptEntryModel"
            /\ e.last_access # NoTime =>
                  e.last_access # BadTime /\ ~(e.last_access < threshold)
        keepFile(fe) ==
            /\ fe.kind = "FileEntryModel"
            /\ fe.last_success # NoTime
            /\ fe.last_success # BadTime
            /\ ~(fe.last_success < threshold)
        prune(fs) ==
            IF fs.kind # "dict" THEN fs
            ELSE [fs EXCEPT !.map =
                     [f \in {g \in DOMAIN fs.map : keepFile(fs.map[g])} |->
                         fs.map[f]]]
    IN  [k \in {x \in DOMAIN root : keepEntry(root[x])} |->
            [root[k] EXCEPT !.files = prune(@)]]

\* a call of evict_old_scripts on a cache object: task t1 holds the object,
\* which is modified in place, and t2 a copy taken before the call
InitEvict ==
    /\ disk = [f \in Files |-> "c1"]
    /\ script = "b1"
    /\ preludes = "v1"
    /\ clock = 3 * TickDays
    /\ doc = NoDoc
    /\ CACHE_LOCK = [p \in Procs |-> NoTask]
    /\ pc = [t \in Tasks |-> IF t = "t1" THEN "evict" ELSE "idle"]
    /\ journals = [t \in Tasks |-> {}]
    /\ to_process = [t \in Tasks |-> {}]
    /\ skipped = [t \in Tasks |-> {}]
    /\ reported = [t \in Tasks |-> {}]
    /\ script_key = [t \in Tasks |-> NoKey]
    /\ exc = [t \in Tasks |-> FALSE]
    /\ \E r \in AnyRoot : cache = [t \in Tasks |-> r]
    /\ now = [t \in Tasks |-> NoTime]
    /\ todo = [t \in Tasks |-> {}]
    /\ ret = [t \in Tasks |-> "none"]
    /\ ident = [t \in Tasks |-> NoIdent]
    /\ dirty = [t \in Tasks |-> {}]
    /\ stale = [t \in Tasks |-> {}]
    /\ hashed = [t \in Tasks |-> {}]
    /\ okAt = [k \in Keys |-> [f \in Files |-> NoTime]]
    /\ pending = [k \in Keys |-> {}]
    /\ commits = {}
    /\ args = NoArgs
    /\ hledger = [coro |-> [j \in Files |-> "none"],
                  semaphore |-> BoundedSemaphore(4)]
    /\ variant = "util"
    /\ proc = [t \in Tasks |-> "p1"]
    /\ tasks = {"t1"}
    /\ budget = budget_of(0, 0, 0)

EvictCall(t) ==
    /\ pc[t] = "evict"
    /\ cache' = [cache EXCEPT ![t] = evict_old_scripts_any(@, clock)]
    /\ pc' = [pc EXCEPT ![t] = "evict_done"]
    /\ ret' = [ret EXCEPT ![t] = "None"]
    /\ UNCHANGED <<envVars, doc, proc, variant, args, hledger, CACHE_LOCK, sessVars, now, todo,
                   tasks, budget, histVars>>

NextEvict == \E t \in Tasks : EvictCall(t)

SpecEvict == InitEvict /\ [][NextEvict]_vars

\* ---------------------------------------------------------------- claims
\* task t takes the turn of journal j in the loop of __aenter__
Decides(t, j) ==
    /\ pc[t] = "enter_loop"
    /\ todo[t] # {}
    /\ j = Min(todo[t])
    /\ todo'[t] = todo[t] \ {j}

\* journal j was reported in a session under key k that exited without an
\* exception at okAt[k][j], existed at that exit and was not edited since;
\* no session under k has had j as a candidate since, and none was running
\* with j as a candidate when that exit completed
Committed(k, j) == okAt[k][j] # NoTime

\* C1: a journal that a session reported and whose body exited without an
\* exception, that existed at that exit and was not modified since, is
\* skipped (and not in to_process) by the next session with the same key.
C1_Idempotence ==
    [][\A t \in Tasks : \A j \in Files :
          Decides(t, j) /\ Committed(script_key[t], j)
          => j \in skipped'[t] /\ j \notin to_process'[t]]_vars

\* the fingerprints persisted under key k
Fingerprints(k) ==
    LET root == read_script_cache(doc)
    IN  IF k \in DOMAIN root THEN root[k].files ELSE <<>>

\* the persisted fingerprint of journal j under key k is the hash of the
\* bytes j has on disk
Matches(k, j) ==
    /\ disk[j] # Missing
    /\ j \in DOMAIN Fingerprints(k)
    /\ Fingerprints(k)[j].hash = sha256(disk[j])

\* C2: at enter a candidate is skipped exactly when the persisted fingerprint
\* under the current script key equals the hash of its current bytes, and is
\* in to_process otherwise (other hash, no fingerprint, no file);
\* should_skip_journal answers True only in that case; no timestamp enters
\* the decision.
C2_ContentChangeDetection ==
    [][\A t \in Tasks :
          /\ \A j \in Files :
                Decides(t, j) =>
                    /\ j \in skipped'[t] <=> Matches(script_key[t], j)
                    /\ j \in to_process'[t] <=> ~Matches(script_key[t], j)
          /\ ret'[t] = "True" /\ ret[t] # "True" =>
                /\ pc[t] = "skip_hash"
                /\ Matches(script_key[t], Min(journals[t]))]_vars

\* a session has to process a journal whose persisted fingerprint, confirmed
\* at the present time, is the hash of other bytes than the journal has
C2_Witness ==
    \E t \in Tasks : \E j \in to_process[t] :
        /\ pc[t] = "body"
        /\ disk[j] # Missing
        /\ j \in DOMAIN Fingerprints(script_key[t])
        /\ Fingerprints(script_key[t])[j].hash # sha256(disk[j])
        /\ Fingerprints(script_key[t])[j].last_success = clock

\* the exit of a session whose body raised hands its cache to
\* write_script_cache
FailingExitWrites(t) ==
    /\ pc[t] = "exit_evict"
    /\ exc[t]
    /\ pc'[t] = "exit_write"

\* C3 as stated: the exit of a session whose body raised changes nothing in
\* the persisted cache but the last_access of the session's script record
\* (the cache it hands to write_script_cache is the persisted one with that
\* last_access set).
C3_OnlyLastAccessChanges ==
    [][\A t \in Tasks :
          FailingExitWrites(t) =>
              LET key == script_key[t]
                  old == setdefault(read_script_cache(doc), key)
              IN  cache'[t] = put(old, key, [old[key] EXCEPT !.last_access = now[t]])]_vars

\* cache `new` is cache `old` less what eviction at time t drops: no record
\* and no fingerprint is added or altered, and what is missing is a record
\* last accessed, or a fingerprint last confirmed (or never dated), more
\* than `days` days before t
OnlyEvicts(old, new, t) ==
    /\ \A k \in DOMAIN new :
          /\ k \in DOMAIN old
          /\ new[k].last_access = old[k].last_access
          /\ \A f \in DOMAIN new[k].files :
                f \in DOMAIN old[k].files /\ new[k].files[f] = old[k].files[f]
    /\ \A k \in DOMAIN old \ DOMAIN new :
          old[k].last_access # NoTime /\ old[k].last_access < t - days
    /\ \A k \in DOMAIN old \cap DOMAIN new :
          \A f \in DOMAIN old[k].files \ DOMAIN new[k].files :
              \/ old[k].files[f].last_success = NoTime
              \/ old[k].files[f].last_success < t - days

\* C3: the exit of a session whose body raised takes the cache document as
\* it reads it, sets the last_access of the session's script record, adds
\* or updates no fingerprint, removes only what eviction drops as stale,
\* and writes the result: every fingerprint it read that is not stale is
\* written back intact.
C3_CrashAtomicity ==
    [][\A t \in Tasks :
          exc[t] /\ (pc'[t] # pc[t] \/ todo'[t] # todo[t]) =>
              LET key == script_key[t]
                  old == setdefault(read_script_cache(doc), key)
              IN  /\ pc[t] = "exit_read" =>
                        cache'[t] = put(old, key, [old[key] EXCEPT !.last_access = clock])
                  /\ pc[t] \in {"exit_reported", "exit_skipped", "exit_evict"} =>
                        OnlyEvicts(cache[t], cache'[t], now[t])
                  /\ pc[t] = "exit_write" =>
                        doc' = model_dump_json(cache[t])]_vars

\* the exit of a session whose body raised after it reported a journal that
\* exists and has no fingerprint is about to write the cache
C3_Witness ==
    \E t \in Tasks : \E j \in reported[t] :
        /\ pc[t] = "exit_write"
        /\ exc[t]
        /\ disk[j] # Missing
        /\ j \in to_process[t]

\* C4: a journal that a session whose body raised had to process, and that
\* was neither edited nor recorded by another operation since that session
\* decided it, is in to_process again in the next session with the same key,
\* whether or not the failed session had reported it.
C4_RetryInFull ==
    [][\A t \in Tasks : \A j \in Files :
          /\ Decides(t, j)
          /\ \E x \in pending[script_key[t]] : x[1] = j
          => j \in to_process'[t] /\ j \notin skipped'[t]]_vars

\* a session has to process again a journal that a failed session under the
\* same key had reported
C4_Witness ==
    \E t \in Tasks : \E j \in to_process[t] :
        /\ pc[t] = "body"
        /\ <<j, TRUE>> \in pending[script_key[t]]

\* the exit of task t stores a hash of journal j that it computes now
ExitHashes(t, j) ==
    /\ pc[t] \in {"exit_reported", "exit_skipped"}
    /\ j = Min(todo[t])
    /\ disk[j] # Missing
    /\ pc[t] = "exit_skipped" => j \notin DOMAIN cache[t][script_key[t]].files
    /\ todo'[t] # todo[t] \/ pc'[t] # pc[t]

\* C5: a hash that exit stores for a journal is the hash of the bytes the
\* journal had when the session reported it (or confirmed it unchanged at
\* enter): the journal was not modified between that moment and the hash
\* computation of exit.
C5_FingerprintSoundness ==
    [][\A t \in Tasks : \A j \in Files :
          ExitHashes(t, j) => j \notin stale[t]]_vars

\* C6: once two sessions that shared the cache file have both exited without
\* an exception, the persisted cache holds a fingerprint for every journal
\* that either of them committed (and that is not old enough to be evicted).
C6_NoLostUpdates ==
    (\A t \in Tasks : pc[t] = "idle" /\ ret[t] = "ok") =>
        \A k \in Keys : \A f \in Files :
            Committed(k, f) /\ clock <= okAt[k][f] + days =>
                f \in DOMAIN Fingerprints(k)

\* the positions of an operation between taking and releasing _CACHE_LOCK
CriticalPcs ==
    {"enter_read", "enter_key", "enter_loop",
     "exit_read", "exit_reported", "exit_skipped", "exit_evict", "exit_write",
     "skip_read", "skip_key", "skip_hash",
     "mark_read", "mark_key", "mark_hash", "mark_evict", "mark_write"}

\* the positions from which the next step reads the cache document
ReadPcs == {"enter_read", "exit_read", "skip_read", "mark_read"}

\* C7: a task that is between the read of the cache document and the end of
\* its operation holds _CACHE_LOCK, no other task is in such a section at
\* the same time, and the cache document changes only in a step of the task
\* that holds the lock.
C7_LockDiscipline ==
    /\ [](\A t \in Tasks :
            pc[t] \in CriticalPcs =>
                /\ CACHE_LOCK[proc[t]] = t
                /\ \A u \in Tasks \ {t} : pc[u] \notin CriticalPcs)
    /\ [][doc' # doc =>
             \E t \in Tasks : /\ CACHE_LOCK[proc[t]] = t
                               /\ pc[t] \in CriticalPcs
                               /\ pc'[t] # pc[t]]_vars

\* a task is inside its critical section, about to write the cache, while
\* the other task waits for the lock
C7_Witness ==
    \E t \in Tasks : \E u \in Tasks \ {t} :
        /\ pc[t] \in {"exit_write", "mark_write"}
        /\ pc[u] \in {"aenter", "aexit", "skip", "mark"}

\* C8: no read of the cache document sees it empty or partly written.
C8_AtomicWrite ==
    [][\A t \in Tasks :
          pc[t] \in ReadPcs /\ pc'[t] # pc[t] => doc.state # "empty"]_vars

\* a change of the script's bytes changes the key
KeysDiffer == \A b \in Bytes : \A c \in Bytes \ {b} :
                  script_key_from(b) # script_key_from(c)

\* C9: keys of different script bytes differ, and a journal is skipped at
\* enter (or should_skip_journal answers True) only on a fingerprint that
\* was recorded under the bytes the script has now: after a change of the
\* script every candidate is in to_process.
C9_IdentitySensitivity ==
    [][/\ KeysDiffer
       /\ \A t \in Tasks :
             /\ \A j \in Files :
                   Decides(t, j) /\ j \in skipped'[t] =>
                       \E c \in commits : c[1] = ident[t].bytes /\ c[3] = j
             /\ ret'[t] = "True" /\ ret[t] # "True" =>
                   \E c \in commits : /\ c[1] = ident[t].bytes
                                       /\ c[3] = Min(journals[t])]_vars

\* a session has to process a journal although a fingerprint persisted under
\* the key of other script bytes is the hash of the journal's current bytes
C9_Witness ==
    \E t \in Tasks : \E j \in to_process[t] : \E k \in Keys \ {script_key[t]} :
        /\ pc[t] = "body"
        /\ Matches(k, j)

C11_ReportingGuard ==
    /\ [](\A t \in Tasks : reported[t] \subseteq journals[t])
    /\ [][\A t \in Tasks :
             /\ ret'[t] = "ValueError" /\ ret[t] # "ValueError" =>
                   pc[t] = "body" /\ reported'[t] = reported[t]
             /\ pc[t] = "body" /\ reported'[t] # reported[t] =>
                   /\ reported'[t] \ reported[t] \subseteq journals[t]
                   /\ ret'[t] = ret[t]]_vars

\* a session that has reported a candidate got ValueError for a journal
\* that is not one of its candidates
C11_Witness ==
    \E t \in Tasks :
        /\ pc[t] = "body"
        /\ ret[t] = "ValueError"
        /\ reported[t] # {}
        /\ journals[t] # Files

\* the turn of journal j in the loop of __aenter__ of task t ends, with a
\* decision or with an exception
EnterTurn(t, j) ==
    /\ pc[t] = "enter_loop"
    /\ todo[t] # {}
    /\ j = Min(todo[t])
    /\ todo'[t] # todo[t]

\* the session of task t is past __aenter__
Entered(t) ==
    pc[t] \in {"body", "aexit", "exit_read", "exit_reported", "exit_skipped",
               "exit_evict", "exit_write"}

\* to_process and skipped are disjoint and together are the candidates
Partition(t) ==
    /\ to_process[t] \cap skipped[t] = {}
    /\ to_process[t] \cup skipped[t] = journals[t]

SkippedTurn(t, j) ==
    /\ pc[t] = "exit_skipped"
    /\ todo[t] # {}
    /\ j = Min(todo[t])
    /\ pc'[t] \in {"exit_skipped", "exit_evict"}
    /\ todo'[t] = todo[t] \ {j}

\* the eviction and the write of an exit whose body did not raise
EvictsOk(t) == pc[t] = "exit_evict" /\ pc'[t] = "exit_write" /\ ~exc[t]

WritesOk(t) == pc[t] = "exit_write" /\ pc'[t] = "idle" /\ ~exc[t]

\* the files of the record of the session's key in the cache that the exit
\* of task t read and is working on
exit_files(t) == cache[t][script_key[t]].files

\* C13 (as claimed): on a successful exit every skipped journal keeps its
\* fingerprint, with the hash it had and last_success set to the exit time;
\* the eviction of that exit keeps it and the write persists it.
C13_RefreshOnSkip ==
    [][\A t \in Tasks : \A j \in Files :
         /\ SkippedTurn(t, j) =>
               /\ j \in DOMAIN exit_files(t)'
               /\ exit_files(t)'[j].last_success = now[t]
               /\ j \in DOMAIN exit_files(t) =>
                      exit_files(t)'[j].hash = exit_files(t)[j].hash
         /\ EvictsOk(t) /\ j \in skipped[t] =>
               /\ j \in DOMAIN exit_files(t)
               /\ script_key[t] \in DOMAIN cache'[t]
               /\ j \in DOMAIN exit_files(t)'
               /\ exit_files(t)'[j] = exit_files(t)[j]
         /\ WritesOk(t) => doc' = model_dump_json(cache[t])]_vars

\* C13 (amended): on a successful exit every skipped journal whose
\* fingerprint is in the cache document that the exit read keeps it, with
\* the hash it had and last_success set to the exit time; a skipped journal
\* without a fingerprint there is hashed again and gets a fingerprint of its
\* current content dated at the exit time, or none when its file is missing;
\* the eviction of that exit keeps every fingerprint so refreshed and the
\* write persists it.
C13_RefreshPresent ==
    [][\A t \in Tasks : \A j \in Files :
         /\ SkippedTurn(t, j) =>
               IF j \in DOMAIN exit_files(t)
               THEN /\ j \in DOMAIN exit_files(t)'
                    /\ exit_files(t)'[j] =
                           FileEntryModel(exit_files(t)[j].hash, now[t])
               ELSE IF disk[j] = Missing
               THEN j \notin DOMAIN exit_files(t)'
               ELSE /\ j \in DOMAIN exit_files(t)'
                    /\ exit_files(t)'[j] =
                           FileEntryModel(sha256(disk[j]), now[t])
         /\ EvictsOk(t) /\ j \in skipped[t] /\ j \in DOMAIN exit_files(t) =>
               /\ exit_files(t)[j].last_success = now[t]
               /\ script_key[t] \in DOMAIN cache'[t]
               /\ j \in DOMAIN exit_files(t)'
               /\ exit_files(t)'[j] = exit_files(t)[j]
         /\ WritesOk(t) => doc' = model_dump_json(cache[t])]_vars

\* a successful exit has persisted, 45 days after the fingerprints of the
\* earlier run were dated, a fingerprint that no operation has computed
\* since: a skipped journal refreshed, and kept by the eviction
C13_Witness ==
    \E t \in Tasks : \E f \in Files :
        /\ pc[t] = "idle"
        /\ ret[t] = "ok"
        /\ commits = {}
        /\ doc.state = "valid"
        /\ script_key_from("b1") \in DOMAIN doc.root
        /\ f \in DOMAIN doc.root[script_key_from("b1")].files
        /\ doc.root[script_key_from("b1")].files[f] =
               FileEntryModel(sha256("c1"), 3 * TickDays)

\* the turn of journal j in the loop of __aexit__ over the reported journals
ReportedTurn(t, j) ==
    /\ pc[t] = "exit_reported"
    /\ todo[t] # {}
    /\ j = Min(todo[t])
    /\ (pc'[t] # pc[t] \/ todo'[t] # todo[t])

\* the steps of __aexit__ after its read
ExitPcs == {"exit_reported", "exit_skipped", "exit_evict", "exit_write"}

\* C14: on a successful exit the turn of a reported journal whose file is
\* missing changes nothing in the cache and the exit goes on; the turn of a
\* reported journal that exists records its fingerprint; once recorded, a
\* fingerprint stays through the turns of the other journals and the
\* eviction, and the exit writes the cache and returns without raising.
C14_VanishedReportedFile ==
    [][\A t \in Tasks : \A j \in Files :
         /\ ReportedTurn(t, j) /\ disk[j] = Missing =>
               /\ cache'[t] = cache[t]
               /\ pc'[t] \in ExitPcs
               /\ ret'[t] = ret[t]
         /\ ReportedTurn(t, j) /\ disk[j] \in Contents =>
               /\ j \in DOMAIN exit_files(t)'
               /\ exit_files(t)'[j] = FileEntryModel(sha256(disk[j]), now[t])
               /\ pc'[t] \in ExitPcs
         /\ pc[t] \in ExitPcs /\ pc'[t] \in ExitPcs /\ ~exc[t]
            /\ j \in reported[t] /\ ~ReportedTurn(t, j)
            /\ j \in DOMAIN exit_files(t)
            /\ exit_files(t)[j].last_success = now[t] =>
               /\ script_key[t] \in DOMAIN cache'[t]
               /\ j \in DOMAIN exit_files(t)'
               /\ exit_files(t)'[j] = exit_files(t)[j]
         /\ WritesOk(t) =>
               doc' = model_dump_json(cache[t]) /\ ret'[t] = "ok"]_vars

\* a successful exit is about to write a cache that has the fingerprint of
\* one reported journal and none of another, whose file is missing
C14_Witness ==
    \E t \in Tasks : \E f, g \in reported[t] :
        /\ pc[t] = "exit_write"
        /\ ~exc[t]
        /\ disk[f] = Missing
        /\ f \notin DOMAIN exit_files(t)
        /\ g \in DOMAIN exit_files(t)
        /\ exit_files(t)[g] = FileEntryModel(sha256(disk[g]), now[t])

\* a script record last accessed, a fingerprint last confirmed (or never
\* dated), more than `days` days before t
StaleRecord(e, t) == e.last_access # NoTime /\ e.last_access < t - days

StaleFile(fe, t) == fe.last_success = NoTime \/ fe.last_success < t - days

\* the exit of a session whose body raised writes the cache file
FailingExitPersists(t) == pc[t] = "exit_write" /\ exc[t] /\ pc'[t] = "idle"

\* C15: the exit of a session whose body raised removes from the cache it
\* read every stale script record and every stale fingerprint, of the
\* session's key and of the other keys, adds no fingerprint, and writes
\* the result to the cache file.
C15_FailureExitEvicts ==
    [][\A t \in Tasks :
         /\ FailingExitWrites(t) =>
               /\ OnlyEvicts(cache[t], cache'[t], now[t])
               /\ \A k \in DOMAIN cache[t] :
                     /\ StaleRecord(cache[t][k], now[t]) => k \notin DOMAIN cache'[t]
                     /\ k \in DOMAIN cache'[t] =>
                           \A f \in DOMAIN cache[t][k].files :
                               StaleFile(cache[t][k].files[f], now[t]) =>
                                   f \notin DOMAIN cache'[t][k].files
         /\ FailingExitPersists(t) =>
               /\ doc' = model_dump_json(cache[t])
               /\ \A k \in DOMAIN doc'.root :
                     /\ ~StaleRecord(doc'.root[k], now[t])
                     /\ \A f \in DOMAIN doc'.root[k].files :
                           ~StaleFile(doc'.root[k].files[f], now[t])]_vars

\* the first operation of a run over the cache of an earlier run is a
\* session under another key whose body raised after a report, 45 days
\* later: its exit is about to write a cache without the earlier record
C15_Witness ==
    \E t \in Tasks :
        /\ pc[t] = "exit_write"
        /\ exc[t]
        /\ reported[t] # {}
        /\ budget.ops = MaxOps - 1
        /\ now[t] = 3 * TickDays
        /\ script_key[t] # script_key_from("b1")
        /\ DOMAIN cache[t] = {script_key[t]}
        /\ cache[t][script_key[t]].files = <<>>

\* the exit of task t writes the cache file and returns
ExitPersists(t) == pc[t] = "exit_write" /\ pc'[t] = "idle"

\* C16: from its read to its write, on success and on failure, the cache
\* that an exit works on has the record of the session's key with
\* last_access equal to the exit time, the eviction of that exit included,
\* and that cache is what the exit writes to the cache file.
C16_UnconditionalLastAccess ==
    /\ [](\A t \in Tasks :
            pc[t] \in ExitPcs =>
                /\ script_key[t] \in DOMAIN cache[t]
                /\ cache[t][script_key[t]].last_access = now[t])
    /\ [][\A t \in Tasks :
             ExitPersists(t) =>
                 /\ doc'.state = "valid"
                 /\ script_key[t] \in DOMAIN doc'.root
                 /\ doc'.root[script_key[t]].last_access = now[t]]_vars

\* the first operation of a run was a session whose body raised; its exit,
\* 45 days into the run, has left a record last accessed at that time
C16_Witness ==
    \E t \in Tasks :
        /\ pc[t] = "idle"
        /\ ret[t] = "raised"
        /\ budget.ops = MaxOps - 1
        /\ clock = 3 * TickDays
        /\ doc.state = "valid"
        /\ \E k \in DOMAIN doc.root : doc.root[k].last_access = clock

\* the steps of __aexit__
AexitPcs == {"aexit", "exit_read"} \cup ExitPcs

EnterPcs == {"aenter", "enter_read", "enter_key", "enter_loop"}

\* __aenter__ of task t raises FileNotFoundError
EnterRaises(t) ==
    /\ pc[t] \in EnterPcs
    /\ ret[t] # "FileNotFoundError"
    /\ ret'[t] = "FileNotFoundError"

\* task t takes a step of __aenter__
EnterStep(t) == pc[t] \in EnterPcs /\ pc'[t] # pc[t]

\* C18 (as claimed): when __aenter__ raises FileNotFoundError for the script
\* the session has not started, and the cache document has been neither
\* read nor written: the task holds nothing of it.
C18_NoCacheInteraction ==
    [][\A t \in Tasks :
         EnterRaises(t) =>
             /\ cache[t] = CacheModel
             /\ doc' = doc
             /\ to_process[t] = {} /\ skipped[t] = {}
             /\ pc'[t] = "idle"]_vars

\* C18 (amended): a script that cannot be read when __aenter__ computes the
\* key makes it raise FileNotFoundError there; the cache document has been
\* read under the lock before that, and no step of __aenter__ writes it;
\* to_process and skipped are empty, the lock is released and the session
\* does not start, so no exit runs.
C18_FatalIdentityFailure ==
    [][\A t \in Tasks :
         /\ EnterStep(t) => doc' = doc
         /\ EnterStep(t) /\ pc[t] = "enter_key" /\ script = Missing =>
               EnterRaises(t)
         /\ EnterRaises(t) =>
               /\ script = Missing
               /\ pc[t] = "enter_key"
               /\ CACHE_LOCK[proc[t]] = t
               /\ cache[t] = read_script_cache(doc)
               /\ to_process[t] = {} /\ skipped[t] = {}
               /\ to_process'[t] = {} /\ skipped'[t] = {}
               /\ pc'[t] = "idle"
               /\ CACHE_LOCK'[proc[t]] = NoTask]_vars

\* __aenter__ holds the lock and the content of the cache file of an
\* earlier run, and the script is gone when it is about to compute the key
C18_Witness ==
    \E t \in Tasks :
        /\ pc[t] = "enter_key"
        /\ script = Missing
        /\ CACHE_LOCK[proc[t]] = t
        /\ cache[t] # CacheModel
        /\ cache[t] = read_script_cache(doc)

\* the steps of should_skip_journal
SkipPcs == {"skip", "skip_read", "skip_key", "skip_hash"}

\* the steps that call write_script_cache
WritePcs == {"exit_evict", "exit_write", "mark_evict", "mark_write"}

\* C19: no step of __aenter__, of the session body (report_success
\* included) or of should_skip_journal changes the cache file, and neither
\* does the start of a session or of should_skip_journal; the cache file
\* changes only in a step of an exit or of mark_journal_processed that
\* writes it.
C19_ReadOnlyEntry ==
    [][\A t \in Tasks :
         /\ pc[t] \in EnterPcs \cup SkipPcs \cup {"idle", "body"}
            /\ (pc'[t] # pc[t] \/ reported'[t] # reported[t]
                 \/ ret'[t] # ret[t]) =>
               doc' = doc
         /\ doc' # doc =>
               \E u \in Tasks : pc[u] \in WritePcs /\ pc'[u] # pc[u]]_vars

\* the first operation of a run is a session that has entered, skipped a
\* journal and reported another, and the cache file is as the earlier run
\* left it
C19_Witness ==
    \E t \in Tasks :
        /\ pc[t] = "body"
        /\ budget.ops = MaxOps - 1
        /\ skipped[t] # {}
        /\ reported[t] # {}
        /\ doc = WarmDoc

\* where the session object of task t is in its life: "Created" while
\* __aenter__ runs, "Entered" from the body to the end of __aexit__,
\* "Exited" afterwards while the caller still holds it, "none" when the
\* task has no session object
Phase(t) ==
    IF pc[t] \in EnterPcs THEN "Created"
    ELSE IF pc[t] \in {"body"} \cup AexitPcs THEN "Entered"
    ELSE IF pc[t] = "exited" THEN "Exited"
    ELSE "none"

\* the moves of the single-use state machine
SingleUseMoves ==
    {<<"none", "Created">>, <<"Created", "Entered">>, <<"Created", "none">>,
     <<"Entered", "Exited">>, <<"Entered", "none">>, <<"Exited", "none">>}

\* C20: a session object is created, entered once and exited once, in that
\* order: __aenter__ never starts on an object that has been entered, and
\* after the exit the object is not used again.
C20_SingleUse ==
    [][\A t \in Tasks :
         Phase(t)' # Phase(t) => <<Phase(t), Phase(t)'>> \in SingleUseMoves]_vars

\* the cache before and after a call of evict_old_scripts that has returned
Before == cache["t2"]

After == cache["t1"]

Evicted == pc["t1"] = "evict_done"

\* a timestamp that is present and well formed; one that is older than the
\* max age at time t
IsTime(s) == s # NoTime /\ s # BadTime

Older(s, t) == IsTime(s) /\ s < t - days

\* a cache as CacheModel.model_validate_json returns it, and the same cache
\* in the form the sessions hold it
Validated(root) ==
    \A k \in DOMAIN root :
        /\ root[k].kind = "ScriptEntryModel"
        /\ root[k].last_access # BadTime
        /\ root[k].files.kind = "dict"
        /\ \A f \in DOMAIN root[k].files.map :
              /\ root[k].files.map[f].kind = "FileEntryModel"
              /\ root[k].files.map[f].last_success # BadTime

plain(root) ==
    [k \in DOMAIN root |->
        [last_access |-> root[k].last_access,
         files |-> [f \in DOMAIN root[k].files.map |->
                       FileEntryModel(root[k].files.map[f].hash,
                                      root[k].files.map[f].last_success)]]]

\* C21: evict_old_scripts removes a script record whose last_access is
\* older than the max age, with all its files; a record whose last_access
\* is within the max age stays, with its last_access, without its dated
\* file entries that are older than the max age and with every other dated
\* file entry unchanged; on a validated cache this is the eviction that
\* the sessions run.
C21_EvictionScope ==
    Evicted =>
        /\ \A k \in DOMAIN Before :
              LET e == Before[k]
              IN  e.kind = "ScriptEntryModel" =>
                    /\ Older(e.last_access, clock) => k \notin DOMAIN After
                    /\ IsTime(e.last_access) /\ ~Older(e.last_access, clock) =>
                          /\ k \in DOMAIN After
                          /\ After[k].last_access = e.last_access
                          /\ After[k].files.kind = e.files.kind
                          /\ DOMAIN After[k].files.map \subseteq DOMAIN e.files.map
                          /\ \A f \in DOMAIN e.files.map :
                                LET fe == e.files.map[f]
                                IN  /\ fe.kind = "FileEntryModel"
                                       /\ Older(fe.last_success, clock) =>
                                          f \notin DOMAIN After[k].files.map
                                    /\ fe.kind = "FileEntryModel"
                                       /\ IsTime(fe.last_success)
                                       /\ ~Older(fe.last_success, clock) =>
                                          /\ f \in DOMAIN After[k].files.map
                                          /\ After[k].files.map[f] = fe
        /\ Validated(Before) =>
              plain(After) = evict_old_scripts(plain(Before), clock)

\* the call has removed one record that was last accessed too long ago,
\* although its files were recent, and has kept another with one of its
\* two files
C21_Witness ==
    /\ Evicted
    /\ \E k \in DOMAIN Before \ DOMAIN After :
          /\ Older(Before[k].last_access, clock)
          /\ \E f \in DOMAIN Before[k].files.map :
                /\ Before[k].files.map[f].kind = "FileEntryModel"
                /\ IsTime(Before[k].files.map[f].last_success)
                /\ ~Older(Before[k].files.map[f].last_success, clock)
    /\ \E k \in DOMAIN After :
          /\ DOMAIN Before[k].files.map = Files
          /\ \E f \in Files : DOMAIN After[k].files.map = {f}
          /\ \A f \in Files : IsTime(Before[k].files.map[f].last_success)

\* C22: after evict_old_scripts every entry left in the cache is a script
\* record whose last_access is absent or a date within the max age, and
\* every entry left in a files dict is a file entry whose last_success is
\* a date within the max age; what was no record, or a record with a
\* malformed last_access, and what was no file entry, or a file entry
\* without a well-formed last_success, is gone.
C22_MalformedEvicted ==
    Evicted =>
        /\ \A k \in DOMAIN After :
              /\ k \in DOMAIN Before
              /\ After[k].kind = "ScriptEntryModel"
              /\ After[k].last_access # BadTime
              /\ ~Older(After[k].last_access, clock)
              /\ After[k].files.kind = "dict" =>
                    \A f \in DOMAIN After[k].files.map :
                        /\ After[k].files.map[f].kind = "FileEntryModel"
                        /\ IsTime(After[k].files.map[f].last_success)
                        /\ ~Older(After[k].files.map[f].last_success, clock)
        /\ \A k \in DOMAIN Before :
              /\ Before[k].kind # "ScriptEntryModel" => k \notin DOMAIN After
              /\ Before[k].last_access = BadTime => k \notin DOMAIN After
              /\ k \in DOMAIN After /\ Before[k].files.kind = "dict" =>
                    \A f \in DOMAIN Before[k].files.map :
                        \/ Before[k].files.map[f].kind # "FileEntryModel"
                        \/ ~IsTime(Before[k].files.map[f].last_success)
                        => f \notin DOMAIN After[k].files.map

\* the call has removed an entry that was no record or had a malformed
\* last_access, and from a record that it kept a file entry without
\* last_success and another value that was no file entry or had a
\* malformed last_success
C22_Witness ==
    /\ Evicted
    /\ \E k \in DOMAIN Before \ DOMAIN After :
          Before[k].kind # "ScriptEntryModel" \/ Before[k].last_access = BadTime
    /\ \E k \in DOMAIN After :
          /\ Before[k].files.kind = "dict"
          /\ DOMAIN Before[k].files.map = Files
          /\ DOMAIN After[k].files.map = {}
          /\ \E f, g \in Files :
                /\ Before[k].files.map[f] =
                      [kind |-> "FileEntryModel", hash |-> sha256("c1"),
                       last_success |-> NoTime]
                /\ \/ Before[k].files.map[g].kind # "FileEntryModel"
                   \/ Before[k].files.map[g].last_success = BadTime

\* ------------------------------------------- eviction with two max ages

\* the state in which task t1 is about to call a function on its own, at
\* pc p, with the cache object r and the arguments a, at wall-clock time c;
\* t2 holds a copy of the object taken before the call
InitCallOn(d, c, r, a, p) ==
    /\ disk = d
    /\ script = "b1"
    /\ preludes = "v1"
    /\ clock = c
    /\ doc = NoDoc
    /\ CACHE_LOCK = [q \in Procs |-> NoTask]
    /\ pc = [t \in Tasks |-> IF t = "t1" THEN p ELSE "idle"]
    /\ journals = [t \in Tasks |-> {}]
    /\ to_process = [t \in Tasks |-> {}]
    /\ skipped = [t \in Tasks |-> {}]
    /\ reported = [t \in Tasks |-> {}]
    /\ script_key = [t \in Tasks |-> NoKey]
    /\ exc = [t \in Tasks |-> FALSE]
    /\ cache = [t \in Tasks |-> r]
    /\ now = [t \in Tasks |-> NoTime]
    /\ todo = [t \in Tasks |-> {}]
    /\ ret = [t \in Tasks |-> "none"]
    /\ ident = [t \in Tasks |-> NoIdent]
    /\ dirty = [t \in Tasks |-> {}]
    /\ stale = [t \in Tasks |-> {}]
    /\ hashed = [t \in Tasks |-> {}]
    /\ okAt = [k \in Keys |-> [f \in Files |-> NoTime]]
    /\ pending = [k \in Keys |-> {}]
    /\ commits = {}
    /\ args = a
    /\ hledger = [coro |-> [j \in Files |-> "none"],
                  semaphore |-> BoundedSemaphore(4)]
    /\ variant = "utils"
    /\ proc = [t \in Tasks |-> "p1"]
    /\ tasks = {"t1"}
    /\ budget = budget_of(0, 0, 0)

InitCall(c, r, a, p) == InitCallOn([f \in Files |-> "c1"], c, r, a, p)

\* max ages that a caller passes, in days: shorter than any age in the
\* cache, the default, and longer than any age in the cache
Ages == {1, days, 2 * days}

\* an optional argument: <<>> when the caller leaves it out
Optional(S) == {<<>>} \cup {<<x>> : x \in S}

OrDefault(o, d) == IF o = <<>> THEN d ELSE o[1]

AgeArgs == [script_age_seconds : Optional(Ages), file_age_seconds : Optional(Ages)]

\* an eviction that has one max age for both scopes, the script age
evict_one_age(root, t, script_age, file_age) ==
    LET keepEntry(e) ==
            /\ e.kind = "ScriptEntryModel"
            /\ e.last_access # NoTime =>
                  e.last_access # BadTime /\ ~(e.last_access < t - script_age)
        keepFile(fe) ==
            /\ fe.kind = "FileEntryModel"
            /\ fe.last_success # NoTime
            /\ fe.last_success # BadTime
            /\ ~(fe.last_success < t - script_age)
        prune(fs) ==
            IF fs.kind # "dict" THEN fs
            ELSE [fs EXCEPT !.map =
                     [f \in {g \in DOMAIN fs.map : keepFile(fs.map[g])} |->
                         fs.map[f]]]
    IN  [k \in {x \in DOMAIN root : keepEntry(root[x])} |->
            [root[k] EXCEPT !.files = prune(@)]]

\* evict(cache, scriptMaxAge, fileMaxAge) at wall-clock time t: a record
\* goes when its last_access is older than the script age or malformed,
\* and of the records that stay a file entry goes when its last_success is
\* older than the file age, missing or malformed
evict_old_scripts_utils(root, t, script_age, file_age) ==
    LET keepEntry(e) ==
            /\ e.kind = "ScriptEntryModel"
            /\ e.last_access # NoTime =>
                  e.last_access # BadTime /\ ~(e.last_access < t - script_age)
        keepFile(fe) ==
            /\ fe.kind = "FileEntryModel"
            /\ fe.last_success # NoTime
            /\ fe.last_success # BadTime
            /\ ~(fe.last_success < t - file_age)
        prune(fs) ==
            IF fs.kind # "dict" THEN fs
            ELSE [fs EXCEPT !.map =
                     [f \in {g \in DOMAIN fs.map : keepFile(fs.map[g])} |->
                         fs.map[f]]]
    IN  [k \in {x \in DOMAIN root : keepEntry(root[x])} |->
            [root[k] EXCEPT !.files = prune(@)]]

\* a call of the eviction with any choice of the two optional ages, on a
\* validated cache, two or three ticks after the oldest date in it
InitAges ==
    \E r \in {x \in AnyRoot : Validated(x)}, a \in AgeArgs,
       c \in {2 * TickDays, 3 * TickDays} :
        InitCall(c, r, a, "evict")

EvictAgesCall(t) ==
    /\ pc[t] = "evict"
    /\ cache' = [cache EXCEPT ![t] =
                    evict_old_scripts_utils(@, clock,
                        OrDefault(args.script_age_seconds, days),
                        OrDefault(args.file_age_seconds, days))]
    /\ pc' = [pc EXCEPT ![t] = "evict_done"]
    /\ ret' = [ret EXCEPT ![t] = "None"]
    /\ UNCHANGED <<envVars, doc, proc, variant, args, hledger, CACHE_LOCK, sessVars, now, todo,
                   tasks, budget, histVars>>

NextAges == \E t \in Tasks : EvictAgesCall(t)

SpecAges == InitAges /\ [][NextAges]_vars

\* the two ages of the call
ScriptAge == OrDefault(args.script_age_seconds, days)

FileAge == OrDefault(args.file_age_seconds, days)

ReadOnlyPcs == {"enter_read", "skip_read", "mark_read"}

\* C24: read_script_cache returns the empty cache, and raises nothing,
\* when the cache file is missing, empty, not parseable, or parseable but
\* not valid; an enter that has read such a file puts every candidate in
\* to_process and none in skipped.
C24_FailOpenRead ==
    [][\A t \in Tasks :
          /\ pc[t] \in ReadOnlyPcs /\ pc'[t] # pc[t] /\ doc.state # "valid" =>
                /\ cache'[t] = CacheModel
                /\ ret'[t] = "none"
          /\ \A j \in Files :
                EnterTurn(t, j) /\ doc.state # "valid" =>
                    j \in to_process'[t] /\ j \notin skipped'[t]]_vars

\* a session has entered on a cache file that parses but does not validate,
\* whose text holds the fingerprints that the journals still have, and has
\* to process both journals
C24_Witness ==
    /\ pc["t1"] = "body"
    /\ doc = InvalidDoc(WarmDoc.root)
    /\ script_key["t1"] \in DOMAIN doc.root
    /\ journals["t1"] = Files
    /\ to_process["t1"] = Files
    /\ \A j \in Files : doc.root[script_key["t1"]].files[j].hash = sha256(disk[j])

\* ------------------------------------------------------ mark, then skip

\* should_skip_journal(script, j) of task t returns
SkipReturns(t, j) ==
    /\ pc[t] \in {"skip_key", "skip_hash"}
    /\ pc'[t] = "idle"
    /\ journals[t] = {j}

\* mark_journal_processed has fingerprinted j for the script as it is now
Marked(j) == <<script, preludes, j>> \in commits

\* no journal and no script has been edited since the run began
NothingEdited == budget.edits = MaxEdits

\* the cache file holds, under the key of the script as it is now, an entry
\* for j
HasEntry(j) ==
    /\ doc.state = "valid"
    /\ script # Missing
    /\ script_key_of(variant, script, preludes) \in DOMAIN doc.root
    /\ j \in DOMAIN doc.root[script_key_of(variant, script, preludes)].files

EntryOf(j) == doc.root[script_key_of(variant, script, preludes)].files[j]

\* C25 (as claimed): after mark_journal_processed(script, j) on an existing
\* journal, should_skip_journal(script, j) returns True for as long as
\* neither j's content nor the script key changes, and False as soon as
\* j's content is no longer the marked one.
C25_MarkThenSkip ==
    [][\A t \in Tasks : \A j \in Files :
          SkipReturns(t, j) /\ Marked(j) =>
              /\ NothingEdited => ret'[t] = "True"
              /\ HasEntry(j) /\ EntryOf(j).hash # sha256(disk[j]) =>
                    ret'[t] = "False"]_vars

\* C25 (amended): after mark_journal_processed(script, j) on an existing
\* journal, should_skip_journal(script, j) returns True for as long as
\* neither j's content nor the script key changes and the cache file
\* still holds the entry of j (a later write of the cache evicts it once
\* it is older than the max age), and False as soon as j's content is no
\* longer the marked one.
C25_MarkThenSkipUnlessEvicted ==
    [][\A t \in Tasks : \A j \in Files :
          SkipReturns(t, j) /\ Marked(j) =>
              /\ NothingEdited /\ HasEntry(j) => ret'[t] = "True"
              /\ NothingEdited /\ ~HasEntry(j) => ret'[t] = "False"
              /\ HasEntry(j) /\ EntryOf(j).hash # sha256(disk[j]) =>
                    ret'[t] = "False"]_vars

\* a journal was marked and a later should_skip_journal on it, with
\* nothing edited in between, has returned True
C25_Witness ==
    /\ pc["t1"] = "idle"
    /\ ret["t1"] = "True"
    /\ NothingEdited
    /\ \E j \in Files : Marked(j) /\ HasEntry(j) /\ EntryOf(j).hash = sha256(disk[j])

\* --------------------------------------------- mark of a missing journal

Finished(j) == hledger.coro[j] \in {"none", "done", "failed"}

\* C27: in scripts/check.py every check_journal coroutine that the body
\* started through gather_and_raise has returned or raised before
\* __aexit__ starts, also when one of them raised, so that a journal is
\* added to the reported set only while the body waits in the gather,
\* never during or after the exit.
C27_ExitAfterGather ==
    /\ [](\A t \in Tasks :
            pc[t] \in AexitPcs => \A j \in Files : Finished(j))
    /\ [][\A t \in Tasks :
             ~(reported'[t] \subseteq reported[t]) => pc[t] = "gather" /\ pc'[t] = "gather"]_vars

\* an exit runs after a gather in which one coroutine raised and the other
\* reported its journal
C27_Witness ==
    /\ pc["t1"] \in AexitPcs
    /\ exc["t1"]
    /\ \E j \in to_process["t1"] : hledger.coro[j] = "failed"
    /\ \E j \in to_process["t1"] : hledger.coro[j] = "done" /\ j \in reported["t1"]

\* ------------------------------------------------- hledger subprocesses

\* the coroutines that hold a slot: their hledger subprocess runs
Running == {j \in Files : hledger.coro[j] = "running"}

\* C28: the number of running hledger subprocesses is never more than the
\* limit of the semaphore, cpu_count() or 4, and the free slots are the
\* limit less the running ones; a run that finishes or raises gives its
\* slot back; every run_hledger call that waits for a slot gets one.
C28_BoundedSubprocesses ==
    /\ [](/\ Cardinality(Running) <= hledger.semaphore.bound_value
          /\ hledger.semaphore.bound_value \in {cpu_count_or_4(c) : c \in cpu_counts}
          /\ hledger.semaphore.value =
                hledger.semaphore.bound_value - Cardinality(Running))
    /\ [][\A j \in Files :
             hledger.coro[j] = "running" /\ hledger.coro'[j] # "running" =>
                 hledger.semaphore.value' = hledger.semaphore.value + 1]_vars
    /\ \A j \in Files :
          hledger.coro[j] = "waiting" ~> hledger.coro[j] = "running"

\* on a machine with one cpu one hledger runs and the other call waits
C28_Witness ==
    /\ hledger.semaphore.bound_value = 1
    /\ \E j \in Files : hledger.coro[j] = "running"
    /\ \E j \in Files : hledger.coro[j] = "waiting"

\* ------------------------------------------------ file_update_if_changed

\* characters of a journal file: two letters, line feed, carriage return
Chars == {"a", "b", "LF", "CR"}

MaxText == 3

\* the texts of at most MaxText characters
Texts == UNION {[1..n -> Chars] : n \in 0..MaxText}

\* the updaters of the tests (identity, reverse, prefix, suffix, shorten)
\* and the one of _format_journal
Updaters == {"identity", "reverse", "prefix", "suffix", "shorten", "format"}

Reverse(x) == [i \in 1..Len(x) |-> x[Len(x) + 1 - i]]

\* `hledger print` and _sort_props give the canonical text of a journal: in
\* these texts the letter b is what hledger prints as a
canonical(x) == [i \in 1..Len(x) |-> IF x[i] = "b" THEN "a" ELSE x[i]]

\* updater(read)
apply(u, x) ==
    CASE u = "identity" -> x
      [] u = "reverse" -> Reverse(x)
      [] u = "prefix" -> <<"b">> \o x
      [] u = "suffix" -> x \o <<"LF">>
      [] u = "shorten" -> IF x = <<>> THEN x ELSE Tail(x)
      [] u = "format" -> canonical(x)

\* file.read() of a file opened in text mode with newline=None: the
\* universal newlines, CR LF and CR are read as LF
RECURSIVE universal_newlines(_)
universal_newlines(raw) ==
    IF raw = <<>> THEN <<>>
    ELSE IF raw[1] = "CR"
    THEN IF Len(raw) >= 2 /\ raw[2] = "LF"
         THEN <<"LF">> \o universal_newlines(SubSeq(raw, 3, Len(raw)))
         ELSE <<"LF">> \o universal_newlines(Tail(raw))
    ELSE <<raw[1]>> \o universal_newlines(Tail(raw))

\* file.write(text) at position pos: with newline=None a line feed is
\* written as os.linesep, which is a line feed on POSIX
write(raw, pos, text) ==
    SubSeq(raw, 1, pos) \o text \o SubSeq(raw, pos + Len(text) + 1, Len(raw))

\* a truncate that leaves the file as it is
truncate_nothing(raw, pos) == raw

\* file.truncate(): the file ends at the current position
truncate(raw, pos) == SubSeq(raw, 1, pos)

\* the calls: file_update_if_changed(journal, updater) with each updater of
\* the tests, and _format_journal(journal, unformatted_files, check,
\* session) with its own updater; `before` keeps the file as it was
Calls ==
    {[fn |-> "file_update_if_changed", updater |-> u, check |-> FALSE,
      before |-> x, read |-> <<>>, pos |-> 0, unformatted_files |-> {}] :
         u \in Updaters \ {"format"}, x \in Texts}
    \cup {[fn |-> "_format_journal", updater |-> "format", check |-> c,
           before |-> x, read |-> <<>>, pos |-> 0, unformatted_files |-> {}] :
              c \in BOOLEAN, x \in Texts}

\* the journal of the call
TheJournal == 1

InitFiles ==
    \E a \in Calls :
        InitCallOn([f \in Files |-> IF f = TheJournal THEN a.before ELSE <<>>],
                   0, CacheModel, a,
                   IF a.fn = "_format_journal" THEN "format_journal" ELSE "update_read")

\* _format_journal: stdout = await run_hledger(journal, "print"); the
\* updater is defined; file_update_if_changed is called
FormatPrint(t) ==
    /\ pc[t] = "format_journal"
    /\ pc' = [pc EXCEPT ![t] = "update_read"]
    /\ UNCHANGED <<envVars, doc, proc, variant, args, hledger, CACHE_LOCK, sessVars, localVars,
                   tasks, budget, histVars>>

\* journal.open("r+t", newline=None); read = await file.read()
UpdateRead(t) ==
    /\ pc[t] = "update_read"
    /\ args' = [args EXCEPT !.read = universal_newlines(disk[TheJournal]),
                            !.pos = Len(disk[TheJournal])]
    /\ pc' = [pc EXCEPT ![t] = "update_seek"]
    /\ UNCHANGED <<envVars, doc, proc, variant, hledger, CACHE_LOCK, sessVars, localVars,
                   tasks, budget, histVars>>

\* await file.seek(0)
UpdateSeek(t) ==
    /\ pc[t] = "update_seek"
    /\ args' = [args EXCEPT !.pos = 0]
    /\ pc' = [pc EXCEPT ![t] = "update_write"]
    /\ UNCHANGED <<envVars, doc, proc, variant, hledger, CACHE_LOCK, sessVars, localVars,
                   tasks, budget, histVars>>

\* where the caller of file_update_if_changed goes on
after_update == IF args.fn = "_format_journal" THEN "format_report" ELSE "update_done"

\* text = updater(read); if text != read: await file.write(text);
\* otherwise return False
UpdateWrite(t) ==
    /\ pc[t] = "update_write"
    /\ LET text == apply(args.updater, args.read)
       IN  IF text # args.read
           THEN /\ disk' = [disk EXCEPT ![TheJournal] = write(@, args.pos, text)]
                /\ args' = [args EXCEPT !.pos = @ + Len(text)]
                /\ pc' = [pc EXCEPT ![t] = "update_truncate"]
                /\ ret' = ret
           ELSE /\ ret' = [ret EXCEPT ![t] = "False"]
                /\ pc' = [pc EXCEPT ![t] = after_update]
                /\ UNCHANGED <<disk, args>>
    /\ UNCHANGED <<script, preludes, clock, doc, proc, variant, hledger, CACHE_LOCK,
                   sessVars, cache, now, todo, tasks, budget, histVars>>

\* await file.truncate(); return True
UpdateTruncate(t) ==
    /\ pc[t] = "update_truncate"
    /\ disk' = [disk EXCEPT ![TheJournal] = truncate(@, args.pos)]
    /\ ret' = [ret EXCEPT ![t] = "True"]
    /\ pc' = [pc EXCEPT ![t] = after_update]
    /\ UNCHANGED <<script, preludes, clock, doc, proc, variant, args, hledger, CACHE_LOCK,
                   sessVars, cache, now, todo, tasks, budget, histVars>>

\* _format_journal: if changed and check: unformatted_files.append(journal);
\* if not check or (check and not changed): session.report_success(journal)
FormatReport(t) ==
    /\ pc[t] = "format_report"
    /\ LET changed == ret[t] = "True"
       IN  /\ args' = [args EXCEPT !.unformatted_files =
                          IF changed /\ args.check THEN @ \cup {TheJournal} ELSE @]
           /\ reported' = [reported EXCEPT ![t] =
                              IF ~args.check \/ ~changed THEN @ \cup {TheJournal} ELSE @]
    /\ ret' = [ret EXCEPT ![t] = "None"]
    /\ pc' = [pc EXCEPT ![t] = "format_done"]
    /\ UNCHANGED <<envVars, doc, proc, variant, hledger, CACHE_LOCK, journals, to_process,
                   skipped, script_key, exc, cache, now, todo, tasks, budget,
                   histVars>>

NextFiles ==
    \E t \in Tasks :
        \/ FormatPrint(t)
        \/ UpdateRead(t)
        \/ UpdateSeek(t)
        \/ UpdateWrite(t)
        \/ UpdateTruncate(t)
        \/ FormatReport(t)

SpecFiles == InitFiles /\ [][NextFiles]_vars

\* C29 (as claimed): _format_journal with check=True finds out whether the
\* journal is formatted and leaves the file as it was.
C29_CheckModeReadOnly ==
    args.fn = "_format_journal" /\ args.check => disk[TheJournal] = args.before

\* file_update_if_changed has returned to its caller
Updated ==
    /\ args.fn = "file_update_if_changed"
    /\ pc["t1"] = "update_done"

Months == 1 .. 3

\* calendar.monthrange(2024, m)[1]: the number of days of the month
monthrange(m) == CASE m = 1 -> 31 [] m = 2 -> 29 [] m = 3 -> 31

RECURSIVE days_before(_)
days_before(m) == IF m = 1 THEN 0 ELSE days_before(m - 1) + monthrange(m - 1)

\* a datetime of 2024 as a number that orders as datetimes do: day d of
\* month m at instant i, where 0 is 00:00:00.000000, 1 is 12:00:00.000000
\* and 2 is 23:59:59.999999
datetime(m, d, i) == (days_before(m) + d - 1) * 3 + i

\* the datetimes that a caller passes: the first instant, noon and the last
\* instant of the first, the fifteenth and the last day of each month
Datetimes ==
    {datetime(m, d, i) : m \in Months, d \in {1, 15, 29}, i \in 0 .. 2}
    \cup {datetime(m, monthrange(m), i) : m \in Months, i \in 0 .. 2}

\* journal.parent.name of the journals that a caller passes
ParentNames == {"2024-01", "2024-02", "2024-03", "2024-13", "notes"}

\* datetime.fromisoformat(f"{name}-01"): <<the datetime>>, or <<>> where it
\* raises
fromisoformat(name) ==
    CASE name = "2024-01" -> <<datetime(1, 1, 0)>>
      [] name = "2024-02" -> <<datetime(2, 1, 0)>>
      [] name = "2024-03" -> <<datetime(3, 1, 0)>>
      [] OTHER -> <<>>

\* dt.month of a parsed datetime
month_of(dt) == CHOOSE m \in Months : datetime(m, 1, 0) <= dt /\ dt <= datetime(m, monthrange(m), 2)

\* month_end(dt): dt.replace(day=monthrange(dt.year, dt.month)[1], hour=23,
\* minute=59, second=59, microsecond=999999)
month_end(dt) == datetime(month_of(dt), monthrange(month_of(dt)), 2)

\* make_datetime_range_filters: from_filter(dt) and to_filter(dt)
from_filter(from_datetime, dt) == from_datetime = <<>> \/ from_datetime[1] <= dt

to_filter(to_datetime, dt) == to_datetime = <<>> \/ dt <= to_datetime[1]

MaxJournals == 2

FilterCalls ==
    [fn : {"filter_journals_between"},
     journals : UNION {[1 .. n -> ParentNames] : n \in 0 .. MaxJournals},
     from_datetime : Optional(Datetimes),
     to_datetime : Optional(Datetimes),
     i : {1},
     ret : {<<>>}]

InitMonths ==
    \E a \in FilterCalls :
        InitCallOn([f \in Files |-> <<>>], 0, CacheModel, a, "filter_loop")

\* one turn of `for journal in journals`: the parent name is parsed, a
\* journal whose name does not parse is passed over, and the journal is
\* appended when to_filter(month_end(to_date)) and from_filter(to_date)
FilterJournal(t) ==
    /\ pc[t] = "filter_loop"
    /\ args.i <= Len(args.journals)
    /\ LET journal == args.journals[args.i]
           to_date == fromisoformat(journal)
       IN  args' = [args EXCEPT
                       !.i = @ + 1,
                       !.ret = IF /\ to_date # <<>>
                                  /\ to_filter(args.to_datetime, month_end(to_date[1]))
                                  /\ from_filter(args.from_datetime, to_date[1])
                               THEN Append(@, journal)
                               ELSE @]
    /\ UNCHANGED <<envVars, doc, proc, variant, hledger, CACHE_LOCK, sessVars, localVars,
                   tasks, budget, histVars, pc>>

\* return ret
FilterReturn(t) ==
    /\ pc[t] = "filter_loop"
    /\ args.i > Len(args.journals)
    /\ pc' = [pc EXCEPT ![t] = "filter_done"]
    /\ UNCHANGED <<envVars, doc, proc, variant, args, hledger, CACHE_LOCK, sessVars, localVars,
                   tasks, budget, histVars>>

NextMonths ==
    \E t \in Tasks :
        \/ FilterJournal(t)
        \/ FilterReturn(t)

SpecMonths == InitMonths /\ [][NextMonths]_vars

\* the month of a parent name, from its first to its last instant,
\* intersects the inclusive window [from_datetime, to_datetime]
MonthIntersects(name, from_datetime, to_datetime) ==
    /\ fromisoformat(name) # <<>>
    /\ LET first == fromisoformat(name)[1]
           last == month_end(first)
       IN  /\ from_datetime = <<>> \/ from_datetime[1] <= last
           /\ to_datetime = <<>> \/ first <= to_datetime[1]
           /\ from_datetime = <<>> \/ to_datetime = <<>>
                 \/ from_datetime[1] <= to_datetime[1]

\* the journals of the call whose month intersects the window
Intersecting ==
    LET Test(name) == MonthIntersects(name, args.from_datetime, args.to_datetime)
    IN  SelectSeq(args.journals, Test)

\* C31 (as claimed): filter_journals_between returns, in their order,
\* exactly the journals whose parent name is a valid YYYY-MM and whose
\* month, from its first to its last instant, intersects the inclusive
\* window [from_datetime, to_datetime], a None bound being unbounded.
C31_MonthIntersectsWindow ==
    pc["t1"] = "filter_done" => args.ret = Intersecting


\* ---------------------------------------------------------------------
\* scripts/util.py: the cache functions of the single-module helper
\* ---------------------------------------------------------------------

\* {"hash": cur_hash, "last_seen": now}
file_entry(h, t) == [hash |-> h, last_seen |-> t]

\* _read_script_cache: a missing or blank file, text that does not parse
\* and JSON that is not a dict read as {}; any other dict is returned as
\* it is
_read_script_cache(d) == IF d.state \in {"valid", "invalid"} THEN d.root ELSE <<>>

\* dumps(content, indent=2, sort_keys=True)
dumps(root) == [state |-> "valid", root |-> root]

\* entry = cache.setdefault(key, {}); entry.setdefault("files", {});
\* entry["last_access"] = now
touch_entry(root, key, t) ==
    put(root, key,
        [last_access |-> t,
         files |-> IF key \in DOMAIN root THEN root[key].files ELSE <<>>])

\* entry["files"][str(journal)] = {"hash": cur_hash, "last_seen": now}
set_file_entry(root, key, j, h, t) ==
    put(root, key,
        [root[key] EXCEPT !.files =
            [f \in DOMAIN root[key].files \cup {j} |->
                IF f = j THEN file_entry(h, t) ELSE root[key].files[f]]])

\* _evict_old_scripts(cache, days=30): a key whose last_access is older
\* than the threshold is deleted, one without last_access is kept, and
\* file entries are left alone
_evict_old_scripts(root, t) ==
    LET threshold == t - days
    IN  [k \in {x \in DOMAIN root :
                   root[x].last_access = NoTime
                   \/ ~(root[x].last_access < threshold)} |-> root[k]]

\* the cache that an earlier run of the script has left: journal 1 with
\* the bytes it had then
LegacyWarmDoc ==
    dumps([k \in {script_key_from("b1")} |->
              [last_access |-> 0,
               files |-> [f \in {1} |-> file_entry(sha256("c2"), 0)]]])

\* two tasks of one script run, on one event loop, with the single-module
\* helper imported
InitLegacy ==
    /\ \E d \in {NoDoc, LegacyWarmDoc} : InitWith(d)
    /\ variant = "util.py"
    /\ proc = [t \in Tasks |-> "p1"]
    /\ tasks = Tasks
    /\ budget = budget_of(MaxOps, MaxEdits, MaxTicks)

\* a caller calls mark_journal_processed(script_id, journal)
LegacyMarkCall(t) ==
    /\ may_start(t)
    /\ \E j \in Files : journals' = [journals EXCEPT ![t] = {j}]
    /\ budget' = [budget EXCEPT !.ops = @ - 1]
    /\ pc' = [pc EXCEPT ![t] = "mark"]
    /\ ret' = [ret EXCEPT ![t] = "none"]
    /\ UNCHANGED <<envVars, doc, proc, variant, args, hledger, CACHE_LOCK, to_process, skipped,
                   reported, script_key, exc, cache, now, todo, tasks,
                   histVars>>

\* async with _CACHE_LOCK
LegacyMarkLock(t) ==
    /\ pc[t] = "mark"
    /\ acquire(t)
    /\ pc' = [pc EXCEPT ![t] = "mark_read"]
    /\ UNCHANGED <<envVars, doc, proc, variant, args, hledger, sessVars, localVars, tasks, budget,
                   histVars>>

\* cache = await _read_script_cache()
LegacyMarkRead(t) ==
    /\ pc[t] = "mark_read"
    /\ cache' = [cache EXCEPT ![t] = _read_script_cache(doc)]
    /\ pc' = [pc EXCEPT ![t] = "mark_key"]
    /\ UNCHANGED <<envVars, doc, proc, variant, args, hledger, CACHE_LOCK, sessVars, now, todo, ret,
                   tasks, budget, histVars>>

\* key = await _script_key_from(script_id); now; entry = setdefault;
\* entry["last_access"] = now
LegacyMarkKey(t) ==
    /\ pc[t] = "mark_key"
    /\ IF script = Missing
       THEN /\ Return(t, "FileNotFoundError")
            /\ UNCHANGED <<envVars, doc, proc, variant, args, hledger, tasks, budget, okAt, pending,
                           commits>>
       ELSE LET key == script_key_of(variant, script, preludes)
            IN  /\ script_key' = [script_key EXCEPT ![t] = key]
                /\ ident' = [ident EXCEPT ![t] = [bytes |-> script, preludes |-> preludes]]
                /\ cache' = [cache EXCEPT ![t] = touch_entry(@, key, clock)]
                /\ now' = [now EXCEPT ![t] = clock]
                /\ pc' = [pc EXCEPT ![t] = "mark_hash"]
                /\ UNCHANGED <<envVars, doc, proc, variant, args, hledger, CACHE_LOCK, journals,
                               to_process, skipped, reported, exc, todo, ret,
                               tasks, budget, dirty, stale, hashed, okAt, pending,
                               commits>>

\* cur_hash = await _file_hash(journal): return when the journal is
\* missing, otherwise entry["files"][str(journal)] = {...}; the
\* `async with _CACHE_LOCK` block ends here and the lock is released
LegacyMarkHash(t) ==
    /\ pc[t] = "mark_hash"
    /\ LET j == Min(journals[t])
       IN  IF disk[j] = Missing
           THEN /\ Return(t, "None")
                /\ UNCHANGED <<envVars, doc, proc, variant, args, hledger, tasks, budget, okAt, pending,
                               commits>>
           ELSE /\ cache' = [cache EXCEPT ![t] =
                               set_file_entry(@, script_key[t], j, sha256(disk[j]), now[t])]
                /\ CACHE_LOCK' = [CACHE_LOCK EXCEPT ![proc[t]] = NoTask]
                /\ commits' = commitsOnCommit(t, j)
                /\ pc' = [pc EXCEPT ![t] = "mark_evict"]
                /\ UNCHANGED <<envVars, doc, proc, variant, args, hledger, sessVars, now,
                               todo, ret, tasks, budget, ident, dirty, stale, hashed,
                               okAt, pending>>

\* _evict_old_scripts(cache), then _write_script_cache opens the cache
\* file with mode "w+t", which truncates it
LegacyMarkEvict(t) ==
    /\ pc[t] = "mark_evict"
    /\ cache' = [cache EXCEPT ![t] = _evict_old_scripts(@, clock)]
    /\ doc' = TruncatedDoc
    /\ pc' = [pc EXCEPT ![t] = "mark_write"]
    /\ UNCHANGED <<envVars, proc, variant, args, hledger, CACHE_LOCK, sessVars, now, todo, ret, tasks,
                   budget, histVars>>

\* _write_script_cache writes the text and closes the file
LegacyMarkWrite(t) ==
    /\ pc[t] = "mark_write"
    /\ doc' = dumps(cache[t])
    /\ ReturnUnlocked(t, "None")
    /\ UNCHANGED <<envVars, proc, variant, args, hledger, tasks, budget, okAt, pending, commits>>

LegacyMark(t) ==
    \/ LegacyMarkCall(t) \/ LegacyMarkLock(t) \/ LegacyMarkRead(t)
    \/ LegacyMarkKey(t) \/ LegacyMarkHash(t) \/ LegacyMarkEvict(t)
    \/ LegacyMarkWrite(t)

NextLegacyMarks ==
    \/ \E t \in Tasks : LegacyMark(t)
    \/ EditJournal
    \/ EditScript

SpecLegacyMarks == InitLegacy /\ [][NextLegacyMarks]_vars

\* every operation has returned
AllIdle == \A t \in Tasks : pc[t] = "idle"

\* the journals for which a mark has stored a fingerprint
MarkedJournals == {c[3] : c \in commits}

\* C32 (as claimed): once the marks of a run of scripts/util.py have
\* returned, with the script and the journals left alone, the persisted
\* cache holds, under the script's key, a file entry for every journal
\* that a mark has stored a fingerprint for, also when two marks for two
\* distinct existing journals ran at the same time.
C32_LegacyMarksBothPersist ==
    AllIdle /\ budget.edits = MaxEdits =>
        \A j \in MarkedJournals :
            /\ script_key_from(script) \in DOMAIN _read_script_cache(doc)
            /\ j \in DOMAIN _read_script_cache(doc)[script_key_from(script)].files
            /\ _read_script_cache(doc)[script_key_from(script)].files[j].hash
                  = sha256(disk[j])


\* ------------------------- scripts/util.py: JournalRunContext
\* __aenter__: cache = await _read_script_cache()
LegacyEnterRead(t) ==
    /\ pc[t] = "enter_read"
    /\ cache' = [cache EXCEPT ![t] = _read_script_cache(doc)]
    /\ pc' = [pc EXCEPT ![t] = "enter_key"]
    /\ UNCHANGED <<envVars, doc, proc, variant, args, hledger, CACHE_LOCK, sessVars, now, todo, ret,
                   tasks, budget, histVars>>

\* __aenter__: key = await _script_key_from(self.script_id); now; entry =
\* setdefault; entry["last_access"] = now, in memory
LegacyEnterKey(t) ==
    /\ pc[t] = "enter_key"
    /\ IF script = Missing
       THEN /\ Return(t, "FileNotFoundError")
            /\ UNCHANGED <<envVars, doc, proc, variant, args, hledger, tasks, budget, okAt, pending,
                           commits>>
       ELSE LET key == script_key_of(variant, script, preludes)
            IN  /\ script_key' = [script_key EXCEPT ![t] = key]
                /\ cache' = [cache EXCEPT ![t] = touch_entry(@, key, clock)]
                /\ now' = [now EXCEPT ![t] = clock]
                /\ ident' = [ident EXCEPT ![t] = [bytes |-> script, preludes |-> preludes]]
                /\ todo' = [todo EXCEPT ![t] = journals[t]]
                /\ pc' = [pc EXCEPT ![t] = "enter_loop"]
                /\ UNCHANGED <<envVars, doc, proc, variant, args, hledger, CACHE_LOCK, journals,
                               to_process, skipped, reported, exc, ret, tasks,
                               budget, dirty, stale, hashed, okAt, pending, commits>>

\* an __aexit__ that updates the cache whatever exc_type is
exit_updates_always(e) == TRUE

\* __aexit__: `if exc_type is None`
exit_updates(e) == ~e

\* __aexit__ with exc_type set: return False at once, so the exception of
\* the body propagates
LegacyExitFails(t) ==
    /\ pc[t] = "aexit"
    /\ ~exit_updates(exc[t])
    /\ ReturnUnlocked(t, outcome(exc[t]))
    /\ UNCHANGED <<envVars, doc, proc, variant, args, hledger, tasks, budget, okAt, pending,
                   commits>>

\* __aexit__ with exc_type None: async with _CACHE_LOCK
LegacyExitLock(t) ==
    /\ pc[t] = "aexit"
    /\ exit_updates(exc[t])
    /\ acquire(t)
    /\ pc' = [pc EXCEPT ![t] = "exit_read"]
    /\ UNCHANGED <<envVars, doc, proc, variant, args, hledger, sessVars, localVars, tasks, budget,
                   histVars>>

\* __aexit__: cache = await _read_script_cache(); key = self._script_key;
\* now; entry = setdefault; entry["last_access"] = now
LegacyExitRead(t) ==
    /\ pc[t] = "exit_read"
    /\ cache' = [cache EXCEPT ![t] = touch_entry(_read_script_cache(doc), script_key[t], clock)]
    /\ now' = [now EXCEPT ![t] = clock]
    /\ pc' = [pc EXCEPT ![t] = IF reported[t] # {} THEN "exit_reported" ELSE "exit_evict"]
    /\ todo' = [todo EXCEPT ![t] = reported[t]]
    /\ UNCHANGED <<envVars, doc, proc, variant, args, hledger, CACHE_LOCK, sessVars, ret, tasks, budget,
                   histVars>>

\* __aexit__: one turn of `for j in sorted(self._reported)`
LegacyExitReported(t) ==
    /\ pc[t] = "exit_reported"
    /\ LET j == Min(todo[t])
       IN  /\ cache' = [cache EXCEPT ![t] =
                          IF disk[j] = Missing THEN @
                          ELSE set_file_entry(@, script_key[t], j, sha256(disk[j]), now[t])]
           /\ commits' = IF disk[j] = Missing THEN commits ELSE commitsOnCommit(t, j)
           /\ todo' = [todo EXCEPT ![t] = @ \ {j}]
           /\ pc' = [pc EXCEPT ![t] = IF todo[t] = {j} THEN "exit_evict" ELSE "exit_reported"]
    /\ UNCHANGED <<envVars, doc, proc, variant, args, hledger, CACHE_LOCK, sessVars, now, ret, tasks,
                   budget, ident, dirty, stale, hashed, okAt, pending>>

\* __aexit__: _evict_old_scripts(cache), then _write_script_cache opens the
\* cache file with mode "w+t", which truncates it
LegacyExitEvict(t) ==
    /\ pc[t] = "exit_evict"
    /\ cache' = [cache EXCEPT ![t] = _evict_old_scripts(@, clock)]
    /\ doc' = TruncatedDoc
    /\ pc' = [pc EXCEPT ![t] = "exit_write"]
    /\ UNCHANGED <<envVars, proc, variant, args, hledger, CACHE_LOCK, sessVars, now, todo, ret, tasks,
                   budget, histVars>>

\* __aexit__: _write_script_cache writes the text; the lock is released
\* and False is returned
LegacyExitWrite(t) ==
    /\ pc[t] = "exit_write"
    /\ doc' = dumps(cache[t])
    /\ Return(t, outcome(exc[t]))
    /\ UNCHANGED <<envVars, proc, variant, args, hledger, tasks, budget, okAt, pending, commits>>

LegacySession(t) ==
    \/ New(t) \/ EnterLock(t) \/ LegacyEnterRead(t) \/ LegacyEnterKey(t)
    \/ EnterFile(t) \/ report_success(t) \/ BodyReturns(t) \/ BodyRaises(t)
    \/ LegacyExitFails(t) \/ LegacyExitLock(t) \/ LegacyExitRead(t)
    \/ LegacyExitReported(t) \/ LegacyExitEvict(t) \/ LegacyExitWrite(t)

NextLegacy ==
    \/ \E t \in Tasks : LegacySession(t)
    \/ EditJournal
    \/ EditScript
    \/ Tick

\* the sessions of a run, with one tick of the clock
InitLegacySessions ==
    /\ \E d \in {NoDoc, LegacyWarmDoc} : InitWith(d)
    /\ variant = "util.py"
    /\ proc = [t \in Tasks |-> "p1"]
    /\ tasks = Tasks
    /\ budget = budget_of(MaxOps, MaxEdits, 1)

SpecLegacy == InitLegacySessions /\ [][NextLegacy]_vars

\* the positions of __aexit__ inside `async with _CACHE_LOCK`
LegacyExitPcs == {"exit_read", "exit_reported", "exit_evict", "exit_write"}

\* task t takes a step of a session whose body has not completed normally:
\* a step of __aenter__, of the body, or of __aexit__ after the body raised
FailingSessionStep(t) ==
    /\ \/ pc[t] \in {"aenter", "enter_read", "enter_key", "enter_loop", "body"}
       \/ pc[t] = "aexit" /\ exc[t]
       \/ pc[t] \in LegacyExitPcs /\ exc[t]
    /\ <<pc[t], todo[t], reported[t], ret[t], exc[t]>>'
          # <<pc[t], todo[t], reported[t], ret[t], exc[t]>>

\* C33: in the JournalRunContext of scripts/util.py, no step of a session
\* whose body raises changes the persisted cache document, and its
\* __aexit__ returns without entering the locked block that reads and
\* writes the cache: the document, last_access included, is what it was
\* before the session.
C33_LegacyFailureExitNoop ==
    /\ [](\A t \in Tasks : exc[t] => pc[t] \notin LegacyExitPcs)
    /\ [][\A t \in Tasks : FailingSessionStep(t) =>
              doc' = doc /\ (pc[t] = "aexit" => CACHE_LOCK' = CACHE_LOCK)]_vars

\* a session whose body raised has exited, days after the persisted cache
\* was last written
C33_Witness ==
    \E t \in Tasks :
        /\ ret[t] = "raised" /\ pc[t] = "idle"
        /\ doc.state = "valid"
        /\ \E k \in DOMAIN doc.root : doc.root[k].last_access < clock


\* ------------------------------------------- age and the partition
\* the persisted cache has, under the key of task t's session, an entry of
\* journal j whose hash is the hash of j's current bytes
PersistedMatch(t, j) ==
    /\ disk[j] # Missing
    /\ script_key[t] \in DOMAIN read_script_cache(doc)
    /\ j \in DOMAIN read_script_cache(doc)[script_key[t]].files
    /\ read_script_cache(doc)[script_key[t]].files[j].hash = sha256(disk[j])

\* the persisted record of task t's key, or the entry of j in it, is older
\* than the max age
PersistedOld(t, j) ==
    LET entry == read_script_cache(doc)[script_key[t]]
    IN  /\ entry.last_access < clock - days
        /\ entry.files[j].last_success < clock - days

\* C34: enter decides a candidate on the hash alone: at its turn the
\* journal is put in skipped exactly when the persisted cache has an entry
\* for it under the session's key whose hash is the hash of the file's
\* current bytes, however old last_success and last_access are, and in
\* to_process otherwise; enter does not change the persisted cache.
C34_AgeBlindPartition ==
    [][\A t \in Tasks : \A j \in Files :
          Decides(t, j) =>
              /\ j \in skipped'[t] <=> PersistedMatch(t, j)
              /\ j \in to_process'[t] <=> ~PersistedMatch(t, j)
              /\ doc' = doc]_vars

\* an entered session has skipped a journal whose persisted entry, and the
\* record that holds it, are older than the max age
C34_Witness ==
    \E t \in Tasks : \E j \in skipped[t] :
        /\ pc[t] = "body"
        /\ PersistedMatch(t, j)
        /\ PersistedOld(t, j)


\* ---------------------------------------------------------------------
\* scripts/depreciate.py: process_lines
\* ---------------------------------------------------------------------

\* what a journal is made of: the head of a depreciation transaction dated
\* on the month's last day ("dep_last", which _DEPRECIATION_REGEX matches
\* and which starts with journal_last_date_str), the head of one of another
\* day ("dep"), the accumulated-depreciation posting of the item ("acc"),
\* other text that is not blank ("txt"), white space ("sp") and the line
\* feed ("LF")
Tokens == {"dep_last", "dep", "acc", "txt", "sp", "LF"}

MaxTokens == 5

Journals == UNION {[1 .. n -> Tokens] : n \in 0 .. MaxTokens}

\* str.splitlines(keepends=True): the lines with their line feed; the last
\* one has none when the text does not end with one
RECURSIVE splitlines(_)
splitlines(text) ==
    IF text = <<>> THEN <<>>
    ELSE LET n == IF \E i \in 1 .. Len(text) : text[i] = "LF"
                  THEN CHOOSE i \in 1 .. Len(text) :
                          /\ text[i] = "LF"
                          /\ \A k \in 1 .. i - 1 : text[k] # "LF"
                  ELSE Len(text)
         IN  <<SubSeq(text, 1, n)>> \o splitlines(SubSeq(text, n + 1, Len(text)))

\* "".join(lines)
RECURSIVE join(_)
join(lines) == IF lines = <<>> THEN <<>> ELSE Head(lines) \o join(Tail(lines))

\* bool(_DEPRECIATION_REGEX.match(line)) and
\* line.startswith(journal_last_date_str)
is_depreciation(line) == line # <<>> /\ line[1] = "dep_last"

\* not line.strip()
is_blank(line) == \A i \in 1 .. Len(line) : line[i] \in {"sp", "LF"}

\* f"    {_ACCUMULATED_DEPRECIATION_ACCOUNT}  {amount} {currency}  ; item: {item}\n"
posting == <<"acc", "LF">>

\* the new transaction: its head, the posting of _DEPRECIATION_ACCOUNT, the
\* accumulated-depreciation posting and an empty line
transaction == <<"dep_last", "LF", "exp", "LF">> \o posting \o <<"LF">>

DepreciateCalls ==
    {[fn |-> "process_lines", read |-> x, lines |-> splitlines(x),
      found |-> FALSE, done |-> FALSE, yielded |-> <<>>] : x \in Journals}

InitDepreciate ==
    \E a \in DepreciateCalls :
        InitCallOn([f \in Files |-> IF f = TheJournal THEN a.read ELSE <<>>],
                   0, CacheModel, a, "lines_loop")

\* one turn of `for line in read.splitlines(keepends=True)`
ProcessLine(t) ==
    /\ pc[t] = "lines_loop"
    /\ args.lines # <<>>
    /\ LET line == Head(args.lines)
       IN  args' =
              IF ~args.found
              THEN [args EXCEPT !.found = is_depreciation(line),
                                !.yielded = Append(@, line),
                                !.lines = Tail(@)]
              ELSE IF ~args.done /\ is_blank(line)
              THEN [args EXCEPT !.done = TRUE,
                                !.yielded = @ \o <<posting, line>>,
                                !.lines = Tail(@)]
              ELSE [args EXCEPT !.yielded = Append(@, line),
                                !.lines = Tail(@)]
    /\ UNCHANGED <<envVars, doc, proc, variant, hledger, CACHE_LOCK, sessVars, localVars,
                   tasks, budget, histVars, pc>>

\* the `else` of the loop: the posting at the end of the file when the
\* transaction was found and no blank line followed; then `if not done`:
\* the new transaction
ProcessEnd(t) ==
    /\ pc[t] = "lines_loop"
    /\ args.lines = <<>>
    /\ args' =
          IF args.found /\ ~args.done
          THEN [args EXCEPT !.done = TRUE, !.yielded = Append(@, posting)]
          ELSE IF ~args.done
          THEN [args EXCEPT !.yielded = Append(@, transaction)]
          ELSE args
    /\ pc' = [pc EXCEPT ![t] = "lines_done"]
    /\ UNCHANGED <<envVars, doc, proc, variant, hledger, CACHE_LOCK, sessVars, localVars,
                   tasks, budget, histVars>>

\* text = "".join(process_lines(read)); if text != read: await seek;
\* await file.write(text); await file.truncate()
DepreciateWrite(t) ==
    /\ pc[t] = "lines_done"
    /\ LET text == join(args.yielded)
       IN  disk' = IF text # args.read
                   THEN [disk EXCEPT ![TheJournal] =
                            truncate(write(@, 0, text), Len(text))]
                   ELSE disk
    /\ pc' = [pc EXCEPT ![t] = "depreciate_done"]
    /\ UNCHANGED <<script, preludes, clock, doc, proc, variant, args, hledger, CACHE_LOCK,
                   sessVars, localVars, tasks, budget, histVars>>

NextDepreciate ==
    \E t \in Tasks :
        \/ ProcessLine(t)
        \/ ProcessEnd(t)
        \/ DepreciateWrite(t)

SpecDepreciate == InitDepreciate /\ [][NextDepreciate]_vars

\* the lines of the journal as it was read, and as it is written
Original == splitlines(args.read)

Written == splitlines(disk[TheJournal])

\* the original lines with lines `added` put before line i
InsertedAt(i, added) ==
    SubSeq(Original, 1, i - 1) \o added \o SubSeq(Original, i, Len(Original))

\* the first depreciation transaction of the month's last day, and the
\* first blank line after its head
Heads == {i \in 1 .. Len(Original) : is_depreciation(Original[i])}

BlanksAfter(h) == {i \in h + 1 .. Len(Original) : is_blank(Original[i])}

\* C35 (as claimed): the journal that process_lines produces has every
\* original line, in order and as it was, and one accumulated-depreciation
\* posting line more: right before the first blank line after the head of
\* the depreciation transaction of the month's last day, or at the end of
\* the file when no blank line follows it; without such a transaction the
\* added lines are those of one new transaction at the end.
C35_InsertsExactlyOnce ==
    pc["t1"] = "depreciate_done" =>
        IF Heads = {}
        THEN Written = Original \o splitlines(transaction)
        ELSE IF BlanksAfter(Min(Heads)) = {}
        THEN Written = Original \o <<posting>>
        ELSE Written = InsertedAt(Min(BlanksAfter(Min(Heads))), <<posting>>)


\* ---------------------------------------------------------------------
\* scripts/util/cache.py: the lock under exceptions
\* ---------------------------------------------------------------------

\* write_script_cache raises an OSError (the directory cannot be made, the
\* file cannot be opened, the disk is full): before the file is opened
\* nothing is written, after it the file stays truncated; the exception
\* leaves `async with _CACHE_LOCK` and the operation
WriteRaises(t) ==
    /\ pc[t] \in {"exit_evict", "exit_write", "mark_evict", "mark_write"}
    /\ Return(t, "OSError")
    /\ UNCHANGED <<envVars, doc, proc, variant, args, hledger, tasks, budget, okAt, pending,
                   commits>>

\* the steps of task t that the event loop runs by itself: everything but
\* the caller's own moves (starting an operation, the body of a session)
Runs(t) ==
    \/ EnterLock(t) \/ EnterRead(t) \/ EnterKey(t) \/ EnterFile(t)
    \/ ExitLock(t) \/ ExitRead(t) \/ ExitReported(t) \/ ExitSkipped(t)
    \/ ExitEvict(t) \/ ExitWrite(t)
    \/ SkipLock(t) \/ SkipRead(t) \/ SkipKey(t) \/ SkipHash(t)
    \/ MarkLock(t) \/ MarkRead(t) \/ MarkKey(t) \/ MarkHash(t)
    \/ MarkEvict(t) \/ MarkWrite(t)
    \/ HashRaises(t) \/ WriteRaises(t)

NextLock ==
    \/ NextOps
    \/ EditJournal
    \/ EditScript
    \/ DenyJournal
    \/ \E t \in Tasks : HashRaises(t) \/ WriteRaises(t)

\* the event loop runs every task that can run
SpecLock ==
    /\ Init
    /\ [][NextLock]_vars
    /\ \A t \in Tasks : WF_vars(Runs(t))

\* the positions at which a task waits for _CACHE_LOCK
WaitPcs == {"aenter", "aexit", "skip", "mark"}

\* C36: a task holds _CACHE_LOCK only inside the locked block of an
\* operation; when should_skip_journal, mark_journal_processed, enter or
\* exit completes, normally or by raising, the lock is free; and every task
\* that waits for the lock eventually acquires it.
C36_LockAlwaysReleased ==
    /\ [](\A t \in Tasks : CACHE_LOCK[proc[t]] = t => pc[t] \in CriticalPcs)
    /\ [][\A t \in Tasks :
             pc[t] \in CriticalPcs /\ pc'[t] \notin CriticalPcs =>
                 CACHE_LOCK'[proc[t]] = NoTask]_vars
    /\ \A t \in Tasks : (pc[t] \in WaitPcs) ~> (pc[t] \in CriticalPcs)

\* an operation has ended by raising the error of a write while the other
\* task waits for the lock
C36_Witness ==
    \E t \in Tasks : \E u \in Tasks \ {t} :
        /\ ret[t] = "OSError" /\ pc[t] = "idle"
        /\ pc[u] \in WaitPcs
        /\ CACHE_LOCK[proc[u]] = NoTask


\* ------------------------------- the partition and should_skip_journal
\* what should_skip_journal(script, j) answers on the persisted cache, the
\* script and the files as they are now: False without a record of the
\* script's key, for a missing journal or without an entry of the journal,
\* otherwise whether the entry's hash is the current hash
ShouldSkipNow(j) ==
    LET root == read_script_cache(doc)
        key == script_key_of(variant, script, preludes)
    IN  /\ key \in DOMAIN root
        /\ disk[j] # Missing
        /\ j \in DOMAIN root[key].files
        /\ root[key].files[j].hash = sha256(disk[j])

\* should_skip_journal of task t returns an answer
SkipAnswers(t) ==
    /\ pc[t] \in {"skip_key", "skip_hash"}
    /\ pc'[t] = "idle"
    /\ ret'[t] \in {"True", "False"}

\* C37: on the same persisted cache, script and files, enter and
\* should_skip_journal decide alike: at its turn in enter a candidate is
\* put in skipped exactly when should_skip_journal would answer True for
\* it, and in to_process otherwise, and a call of should_skip_journal
\* returns that answer.
C37_PartitionAgreesWithSkip ==
    [][\A t \in Tasks :
          /\ \A j \in Files :
                Decides(t, j) =>
                    /\ j \in skipped'[t] <=> ShouldSkipNow(j)
                    /\ j \in to_process'[t] <=> ~ShouldSkipNow(j)
          /\ SkipAnswers(t) =>
                (ret'[t] = "True" <=> ShouldSkipNow(Min(journals[t])))]_vars

\* a session has skipped one candidate and has another to process, and a
\* call of should_skip_journal made meanwhile for the skipped one has
\* answered True
C37_Witness ==
    \E t \in Tasks : \E u \in Tasks \ {t} : \E j \in skipped[t] :
        /\ pc[t] = "body"
        /\ to_process[t] # {}
        /\ pc[u] = "idle" /\ ret[u] = "True"
        /\ ShouldSkipNow(j)


\* ------------------------------------- records without last_access
\* a script record that has no last_access
Undated(e) == e.kind = "ScriptEntryModel" /\ e.last_access = NoTime

\* C38: evict_old_scripts keeps every script record that has no
\* last_access, still without one, and removes from its files every file
\* entry whose last_success is absent or older than the max age.
C38_UndatedRecordSurvives ==
    Evicted =>
        \A k \in DOMAIN Before :
            Undated(Before[k]) =>
                /\ k \in DOMAIN After
                /\ Undated(After[k])
                /\ Before[k].files.kind = "dict" =>
                      \A f \in DOMAIN Before[k].files.map :
                          LET fe == Before[k].files.map[f]
                          IN  /\ fe.kind = "FileEntryModel"
                              /\ fe.last_success = NoTime \/ Older(fe.last_success, clock)
                              => f \notin DOMAIN After[k].files.map

\* the call has kept a record without last_access, has removed from it a
\* file entry without last_success and one older than the max age, and
\* has removed another record for its old last_access
C38_Witness ==
    /\ Evicted
    /\ \E k \in DOMAIN After :
          /\ Undated(Before[k])
          /\ Before[k].files.kind = "dict"
          /\ DOMAIN Before[k].files.map = Files
          /\ DOMAIN After[k].files.map = {}
          /\ \E f, g \in Files :
                /\ Before[k].files.map[f].kind = "FileEntryModel"
                /\ Before[k].files.map[f].last_success = NoTime
                /\ Before[k].files.map[g].kind = "FileEntryModel"
                /\ Older(Before[k].files.map[g].last_success, clock)
    /\ \E k \in DOMAIN Before \ DOMAIN After : Older(Before[k].last_access, clock)


\* ------------------------------------------------------ the exit frame
\* at time t a record is stale when its last_access is older than the max
\* age, and a file entry when its last_success is absent or older
StaleEntry(e, t) == e.last_access # NoTime /\ e.last_access < t - days

StaleFileEntry(fe, t) == fe.last_success = NoTime \/ fe.last_success < t - days

\* the files of record `new` are those of record `old` outside `touched`:
\* no entry is added, a stale one is gone and any other is as it was
FilesKept(old, new, touched, t) ==
    /\ DOMAIN new.files \ touched \subseteq DOMAIN old.files
    /\ \A f \in DOMAIN old.files \ touched :
          IF StaleFileEntry(old.files[f], t)
          THEN f \notin DOMAIN new.files
          ELSE f \in DOMAIN new.files /\ new.files[f] = old.files[f]

\* cache `new` is cache `old` but for the record of key k, whose
\* last_access is t and whose entries of the `touched` journals may
\* differ, and but for what is stale at time t
FrameHolds(old, new, k, touched, t) ==
    /\ DOMAIN new \subseteq DOMAIN old \cup {k}
    /\ k \in DOMAIN new
    /\ new[k].last_access = t
    /\ k \in DOMAIN old => FilesKept(old[k], new[k], touched, t)
    /\ k \notin DOMAIN old => DOMAIN new[k].files \subseteq touched
    /\ \A k2 \in DOMAIN old \ {k} :
          IF StaleEntry(old[k2], t)
          THEN k2 \notin DOMAIN new
          ELSE /\ k2 \in DOMAIN new
               /\ new[k2].last_access = old[k2].last_access
               /\ FilesKept(old[k2], new[k2], {}, t)

\* C39: the cache that an exit of a session with key k writes is the
\* persisted cache as it stands when the exit opens the file for writing,
\* but for the record of k, which gets the time of the exit as last_access
\* and, after a body that did not raise, the entries of the reported and
\* skipped journals, and but for the records and file entries that are
\* stale at the exit, which are gone: every other record, and every other
\* file entry of k, keeps its hash and timestamp.
C39_ExitFrame ==
    [][\A t \in Tasks :
          /\ pc[t] = "exit_evict" /\ pc'[t] = "exit_write" =>
                FrameHolds(read_script_cache(doc), cache'[t], script_key[t],
                           IF exc[t] THEN {} ELSE reported[t] \cup skipped[t],
                           clock)
          /\ pc[t] = "exit_write" /\ pc'[t] # "exit_write" =>
                doc' = model_dump_json(cache[t])]_vars

====
